---- MODULE Spec2Model ----
(***************************************************************************)
(* Model of the table extraction pipeline of ssambbq1/tablellm: the        *)
(* Convert route (page selection, rasterization, bounded-concurrency       *)
(* dispatch of the vision calls, aggregation) and the Extract route.       *)
(*                                                                         *)
(* Text is modelled as a sequence of one-character strings, so that        *)
(* split / trim / regular-expression tests are computed, not assumed.      *)
(***************************************************************************)
EXTENDS Integers, Sequences, FiniteSets, TLC

(***************************************************************************)
(* Bounds of the model.                                                    *)
(***************************************************************************)
MaxSpecLen == 4
MaxTotal == 3
MaxParam == 3
MaxDocPages == 3

VARIABLES
  parseIn,     \* arguments of a parsePageSpec call: [spec, total]
  parseOut,    \* its return value: [done, pages]
  selIn,       \* inputs of the page selection: document size, query values
  selOut,      \* its outcome: [done, firstPage, lastPage, pages]
  openai,      \* the module-level client: TRUE when it was initialized
  pc,          \* position of the Convert request in POST
  cfg,         \* the parsed query parameters (the ...Cfg constants)
  totalPages,  \* pdf.numPages
  selectedPages,
  pageImages,  \* the pages rendered so far, in order ({page, dataUrl})
  results,     \* mapLimit: the results array, index -> value
  nextIndex,   \* mapLimit: next index to start
  active,      \* mapLimit: the counter of running units
  promise,     \* mapLimit: state of the promise it returned
  unit,        \* per index: where fn(items[index]) and its handlers stand
  fnValue,     \* per index: the value fn's promise was fulfilled with
  usageInfo,   \* the usage accumulator of the request
  response,    \* the HTTP response of the request
  visionCalls, \* the pages sent to the vision model, in call order
  reply,       \* per index: what the vision call of the unit came to
  settleOrder, \* the indices in the order their vision calls came back
  extractPc,   \* position of the Extract request in POST
  extractBody, \* the body of the Extract request, as request.json() gives it
  apiKey,      \* TRUE when process.env.OPENAI_API_KEY is set
  modelOutcome, \* what the model call of the Extract request came to
  heuristicRan, \* TRUE when heuristicExtract was called
  modelParsed, \* Extract: parsed as the inner try left it
  parsed,      \* Extract: the raw mapping, before the aliases are applied
  extractResponse, \* the HTTP response of the Extract request
  callIn,      \* a function called on its own: its name and arguments
  callOut,     \* what that call returned
  requests,    \* per request: a mapLimit call of the Convert route and its caller
  client       \* the page in the browser: its state and its Extract request

parseVars == <<parseIn, parseOut>>
selVars == <<selIn, selOut>>
convVars == <<openai, pc, cfg, totalPages, selectedPages, pageImages, results,
              nextIndex, active, promise, unit, fnValue, usageInfo, response,
              visionCalls, reply, settleOrder>>
extVars == <<extractPc, extractBody, apiKey, modelOutcome, heuristicRan, modelParsed,
             parsed, extractResponse>>
callVars == <<callIn, callOut>>
moreVars == <<requests, client>>
vars == <<parseVars, selVars, convVars, extVars, callVars, moreVars>>

(***************************************************************************)
(* Generic helpers on numbers and character sequences.                     *)
(***************************************************************************)
Min2(a, b) == IF a <= b THEN a ELSE b
Max2(a, b) == IF a >= b THEN a ELSE b

Digits == <<"0", "1", "2", "3", "4", "5", "6", "7", "8", "9">>

\* \d of the regular expressions
IsDigit(c) == \E i \in 1..10 : Digits[i] = c

DigitVal(c) == (CHOOSE i \in 1..10 : Digits[i] = c) - 1

\* \s of the regular expressions, and the characters String.trim() removes
IsSpace(c) == c \in {" ", "\t", "\n", "\r"}

\* s.slice(i - 1, j): the characters i..j of s, empty when i > j
Slice(s, i, j) == IF i > j THEN <<>> ELSE SubSeq(s, i, j)

\* String.prototype.trim
Trim(s) ==
  LET keep == {i \in 1..Len(s) : ~IsSpace(s[i])}
  IN  IF keep = {} THEN <<>>
      ELSE LET lo == CHOOSE i \in keep : \A j \in keep : i <= j
               hi == CHOOSE i \in keep : \A j \in keep : i >= j
           IN  SubSeq(s, lo, hi)

\* String.prototype.split(sep) for a one-character separator
RECURSIVE SplitFrom(_, _, _)
SplitFrom(s, sep, from) ==
  LET hits == {i \in from..Len(s) : s[i] = sep}
  IN  IF hits = {} THEN <<Slice(s, from, Len(s))>>
      ELSE LET i == CHOOSE k \in hits : \A j \in hits : k <= j
           IN  <<Slice(s, from, i - 1)>> \o SplitFrom(s, sep, i + 1)

Split(s, sep) == SplitFrom(s, sep, 1)

\* /^\d+$/.test(p)
AllDigits(p) == Len(p) > 0 /\ \A i \in 1..Len(p) : IsDigit(p[i])

\* parseInt(p, 10) of a string of digits
RECURSIVE ParseInt(_)
ParseInt(p) ==
  IF Len(p) = 0 THEN 0
  ELSE 10 * ParseInt(SubSeq(p, 1, Len(p) - 1)) + DigitVal(p[Len(p)])

\* Array.prototype.sort((a, b) => a - b) applied to Array.from(set)
RECURSIVE SortedSeq(_)
SortedSeq(S) ==
  IF S = {} THEN <<>>
  ELSE LET m == CHOOSE x \in S : \A y \in S : x <= y
       IN  <<m>> \o SortedSeq(S \ {m})

SeqToSet(s) == {s[i] : i \in 1..Len(s)}

StrictlyIncreasing(s) == \A i \in 1..Len(s) - 1 : s[i] < s[i + 1]

(***************************************************************************)
(* parsePageSpec                                                           *)
(***************************************************************************)
\* p.match(/^(\d+)\s*-\s*(\d+)$/): the two captured digit strings, or <<>> when
\* the token does not match. Digits, white space and '-' are disjoint classes,
\* so the decomposition is unique: the leading digit run, white space, one
\* '-', white space, digits up to the end.
RangeMatch(p) ==
  LET n  == Len(p)
      nd == {i \in 1..n : ~IsDigit(p[i])}
      d1 == IF nd = {} THEN n + 1 ELSE CHOOSE i \in nd : \A j \in nd : i <= j
      ns == {i \in d1..n : ~IsSpace(p[i])}
      h  == IF ns = {} THEN n + 1 ELSE CHOOSE i \in ns : \A j \in ns : i <= j
      ms == {i \in (h + 1)..n : ~IsSpace(p[i])}
      d2 == IF ms = {} THEN n + 1 ELSE CHOOSE i \in ms : \A j \in ms : i <= j
  IN  IF /\ d1 > 1
         /\ h <= n
         /\ p[h] = "-"
         /\ d2 <= n
         /\ AllDigits(Slice(p, d2, n))
      THEN <<Slice(p, 1, d1 - 1), Slice(p, d2, n)>>
      ELSE <<>>

\* the body of the loop over the parts: the pages one token adds to the set
TokenPagesSwapDropped(p, total) ==
  IF AllDigits(p)
  THEN LET n == ParseInt(p) IN IF n >= 1 /\ n <= total THEN {n} ELSE {}
  ELSE LET m == RangeMatch(p)
       IN  IF m = <<>> THEN {}
           ELSE LET a == Max2(1, ParseInt(m[1]))
                    b == Min2(total, ParseInt(m[2]))
                IN  {i \in 1..total : a <= i /\ i <= b}

TokenPages(p, total) ==
  IF AllDigits(p)
  THEN LET n == ParseInt(p) IN IF n >= 1 /\ n <= total THEN {n} ELSE {}
  ELSE LET m == RangeMatch(p)
       IN  IF m = <<>> THEN {}
           ELSE LET a0 == ParseInt(m[1])
                    b0 == ParseInt(m[2])
                    a1 == IF a0 > b0 THEN b0 ELSE a0
                    b1 == IF a0 > b0 THEN a0 ELSE b0
                    a  == Max2(1, a1)
                    b  == Min2(total, b1)
                IN  a..b

\* spec.split(',').map(s => s.trim()).filter(Boolean)
SpecParts(spec) ==
  LET raw == Split(spec, ",")
  IN  SelectSeq([i \in 1..Len(raw) |-> Trim(raw[i])], LAMBDA t : t # <<>>)

parsePageSpec(spec, total) ==
  IF spec = <<>> THEN <<>>
  ELSE LET parts == SpecParts(spec)
       IN  SortedSeq(UNION {TokenPages(parts[i], total) : i \in 1..Len(parts)})

(***************************************************************************)
(* Query parameters of the Convert route.  A query value is absent, a      *)
(* text that is no number, or an integer; a JavaScript number is NaN or    *)
(* an integer (fractional query values are outside the modelled inputs,    *)
(* on integers Math.floor is the identity).                                *)
(***************************************************************************)
QAbsent == [kind |-> "absent", n |-> 0]
QText == [kind |-> "text", n |-> 0]
QNum(n) == [kind |-> "num", n |-> n]

\* Number(sp.get(name)): Number(null) is 0, Number("abc") is NaN
NumberOf(q) ==
  IF q.kind = "text" THEN [nan |-> TRUE, v |-> 0]
  ELSE IF q.kind = "absent" THEN [nan |-> FALSE, v |-> 0]
  ELSE [nan |-> FALSE, v |-> q.n]

MaxPagesCap == 50

\* Number.MAX_SAFE_INTEGER stands for 2^53 - 1; any value above every page
\* number behaves alike under Math.min(totalPages, ...), and this one keeps
\* the sum within the checker's integers.
MAX_SAFE_INTEGER == 2000000000

maxPagesCfgOfUncapped(maxPagesParam) ==
  IF ~maxPagesParam.nan /\ maxPagesParam.v > 0
  THEN [finite |-> TRUE, v |-> maxPagesParam.v]
  ELSE [finite |-> FALSE, v |-> 0]

\* Math.min(maxPagesParam, 50), or Number.POSITIVE_INFINITY
maxPagesCfgOf(maxPagesParam) ==
  IF ~maxPagesParam.nan /\ maxPagesParam.v > 0
  THEN [finite |-> TRUE, v |-> Min2(maxPagesParam.v, MaxPagesCap)]
  ELSE [finite |-> FALSE, v |-> 0]

startPageCfgOf(startParam) ==
  IF ~startParam.nan /\ startParam.v > 0 THEN startParam.v ELSE 1

\* undefined is modelled as [defined |-> FALSE]
endPageCfgRawOf(endParam) ==
  IF ~endParam.nan /\ endParam.v > 0
  THEN [defined |-> TRUE, v |-> endParam.v]
  ELSE [defined |-> FALSE, v |-> 0]

(***************************************************************************)
(* Page selection of pdfToImageDataUrls                                    *)
(***************************************************************************)
lastPageOf(numPages, startPageCfg, endPageCfgRaw, maxPagesCfg) ==
  LET lastByMax == Min2(numPages,
                        startPageCfg
                          + (IF maxPagesCfg.finite THEN maxPagesCfg.v
                             ELSE MAX_SAFE_INTEGER) - 1)
      lastByEnd == IF endPageCfgRaw.defined /\ endPageCfgRaw.v # 0
                   THEN Min2(endPageCfgRaw.v, numPages)
                   ELSE numPages
  IN  Min2(lastByMax, lastByEnd)

firstPageOfUnclamped(startPageCfg, lastPage) == Max2(1, startPageCfg)

firstPageOf(startPageCfg, lastPage) == Min2(Max2(1, startPageCfg), lastPage)

\* Array.prototype.filter
FilterSeq(s, Keep(_)) == SelectSeq(s, Keep)

\* for (let i = from; i <= to; i++) if (!skip.has(i)) tmp.push(i)
RECURSIVE RangeExcept(_, _, _)
RangeExcept(from, to, skip) ==
  IF from > to THEN <<>>
  ELSE (IF from \in skip THEN <<>> ELSE <<from>>)
         \o RangeExcept(from + 1, to, skip)

selectedPagesExcludeIgnored(numPages, firstPage, lastPage, pagesSpec, excludeSpec) ==
  LET includeList == parsePageSpec(pagesSpec, numPages)
  IN  IF Len(includeList) > 0
      THEN FilterSeq(includeList, LAMBDA p : p >= firstPage /\ p <= lastPage)
      ELSE RangeExcept(firstPage, lastPage, {})

selectedPagesBySpecText(numPages, firstPage, lastPage, pagesSpec, excludeSpec) ==
  LET includeList == parsePageSpec(pagesSpec, numPages)
      excludeList == SeqToSet(parsePageSpec(excludeSpec, numPages))
  IN  IF pagesSpec # <<>>
      THEN FilterSeq(includeList,
                     LAMBDA p : p >= firstPage /\ p <= lastPage /\ p \notin excludeList)
      ELSE RangeExcept(firstPage, lastPage, excludeList)

selectedPagesOf(numPages, firstPage, lastPage, pagesSpec, excludeSpec) ==
  LET includeList == parsePageSpec(pagesSpec, numPages)
      excludeList == SeqToSet(parsePageSpec(excludeSpec, numPages))
  IN  IF Len(includeList) > 0
      THEN FilterSeq(includeList,
                     LAMBDA p : p >= firstPage /\ p <= lastPage /\ p \notin excludeList)
      ELSE RangeExcept(firstPage, lastPage, excludeList)

(***************************************************************************)
(* Text of the Convert route                                               *)
(***************************************************************************)
UpperLetters == <<"A", "B", "C", "D", "E", "F", "G", "H", "I", "J", "K", "L", "M",
                  "N", "O", "P", "Q", "R", "S", "T", "U", "V", "W", "X", "Y", "Z">>
LowerLetters == <<"a", "b", "c", "d", "e", "f", "g", "h", "i", "j", "k", "l", "m",
                  "n", "o", "p", "q", "r", "s", "t", "u", "v", "w", "x", "y", "z">>

LowerChar(c) ==
  IF \E i \in 1..26 : UpperLetters[i] = c
  THEN LowerLetters[CHOOSE i \in 1..26 : UpperLetters[i] = c]
  ELSE c

\* String.prototype.toLowerCase
ToLower(s) == [i \in 1..Len(s) |-> LowerChar(s[i])]

\* String.prototype.includes
Includes(hay, needle) ==
  \E i \in 1..(Len(hay) - Len(needle) + 1) : SubSeq(hay, i, i + Len(needle) - 1) = needle

\* a case-insensitive regular expression of literal characters, tested
IncludesIgnoreCase(hay, needle) == Includes(ToLower(hay), ToLower(needle))

\* `${n}` of a non-negative integer
RECURSIVE Decimal(_)
Decimal(n) ==
  IF n < 10 THEN <<Digits[n + 1]>> ELSE Decimal(n \div 10) \o <<Digits[(n % 10) + 1]>>

\* Array.prototype.join
RECURSIVE Join(_, _)
Join(parts, sep) ==
  IF Len(parts) = 0 THEN <<>>
  ELSE IF Len(parts) = 1 THEN parts[1]
  ELSE parts[1] \o sep \o Join(Tail(parts), sep)

\* the text of /No tables detected/i
NoTablesPattern ==
  <<"N", "o", " ", "t", "a", "b", "l", "e", "s", " ", "d", "e", "t", "e",
      "c", "t", "e", "d">>

\* the sentinel the prompt asks for: "No tables detected in the image."
SentinelImage ==
  <<"N", "o", " ", "t", "a", "b", "l", "e", "s", " ", "d", "e", "t", "e",
      "c", "t", "e", "d", " ", "i", "n", " ", "t", "h", "e", " ", "i", "m",
      "a", "g", "e", ".">>

\* "No tables detected in the document."
NoTablesDocument ==
  <<"N", "o", " ", "t", "a", "b", "l", "e", "s", " ", "d", "e", "t", "e",
      "c", "t", "e", "d", " ", "i", "n", " ", "t", "h", "e", " ", "d", "o",
      "c", "u", "m", "e", "n", "t", ".">>

\* "### Page "
PageHeading ==
  <<"#", "#", "#", " ", "P", "a", "g", "e", " ">>

BlankLine == <<"\n", "\n">>

\* `### Page ${r.page}\n\n${r.content}`
PagePart(r) == PageHeading \o Decimal(r.page) \o BlankLine \o r.content

(***************************************************************************)
(* Answers of the vision model to one page call: the text of               *)
(* choices[0].message.content (hasContent FALSE when it is missing) and    *)
(* the usage block (hasUsage FALSE when it is missing).                    *)
(***************************************************************************)
TableText == <<"|", "a", "|", "1", "|">>

\* " no tables detected in the IMAGE.\n"
PaddedSentinel ==
  <<" ", "n", "o", " ", "t", "a", "b", "l", "e", "s", " ", "d", "e", "t",
      "e", "c", "t", "e", "d", " ", "i", "n", " ", "t", "h", "e", " ", "I",
      "M", "A", "G", "E", ".", "\n">>

\* "NO TABLES DETECTED."
ShortSentinel ==
  <<"N", "O", " ", "T", "A", "B", "L", "E", "S", " ", "D", "E", "T", "E",
      "C", "T", "E", "D", ".">>

Answer(text, hasContent, hasUsage, p, c) ==
  [content |-> text, hasContent |-> hasContent, hasUsage |-> hasUsage,
   prompt_tokens |-> p, completion_tokens |-> c, total_tokens |-> p + c]

VisionAnswers ==
  { Answer(TableText, TRUE, TRUE, 2, 1),
    Answer(<<" ", "|", "b", "|", "\n">>, TRUE, TRUE, 1, 1),
    Answer(SentinelImage, TRUE, TRUE, 1, 0),
    Answer(PaddedSentinel, TRUE, FALSE, 0, 0),
    Answer(ShortSentinel, TRUE, TRUE, 1, 0),
    Answer(<<" ", "\n">>, TRUE, TRUE, 1, 0),
    Answer(<<>>, FALSE, TRUE, 1, 0) }

(***************************************************************************)
(* The Convert route: POST of /api/convert for one request                 *)
(***************************************************************************)
ZeroUsage == [prompt_tokens |-> 0, completion_tokens |-> 0, total_tokens |-> 0]

NoResponse == [status |-> 0, keys |-> {}, markdown |-> <<>>, usage |-> ZeroUsage,
               details |-> ""]

\* NextResponse.json({ error }, { status })
ErrorOnly(status) == [NoResponse EXCEPT !.status = status, !.keys = {"error"}]

\* the catch block: NextResponse.json({ error, details: err.message }, { status: 500 })
CaughtResponse(message) ==
  [NoResponse EXCEPT !.status = 500, !.keys = {"error", "details"}, !.details = message]

\* NextResponse.json({ markdown, usage: usageInfo })
SuccessResponse(markdown, usage) ==
  [NoResponse EXCEPT !.status = 200, !.keys = {"markdown", "usage"},
                     !.markdown = markdown, !.usage = usage]

\* const envConcurrency = Number(process.env.PDF_CONCURRENCY) || 2
DefaultConcurrency == 2
envConcurrencyOf(envValue) ==
  LET n == NumberOf(envValue)
  IN  IF n.nan \/ n.v = 0 THEN DefaultConcurrency ELSE n.v

MinConcurrency == 1
MaxConcurrency == 5
concurrencyCfgOf(concurrencyParam, envConcurrency) ==
  IF /\ ~concurrencyParam.nan
     /\ concurrencyParam.v >= MinConcurrency
     /\ concurrencyParam.v <= MaxConcurrency
  THEN concurrencyParam.v
  ELSE envConcurrency

NoCfg == [maxPagesCfg |-> [finite |-> FALSE, v |-> 0], startPageCfg |-> 1,
          endPageCfgRaw |-> [defined |-> FALSE, v |-> 0], concurrencyCfg |-> 0,
          pagesSpec |-> <<>>, excludeSpec |-> <<>>]

\* the request bodies the route tells apart
RequestBodies ==
  { "json image dataUrl", "json without image dataUrl", "json unparsable",
    "form without file", "form image file", "form pdf file", "form other file",
    "other content type" }

\* results = new Array(items.length): every slot a hole
Hole == [defined |-> FALSE, page |-> 0, content |-> <<>>]

\* the while loop of launchNext: the value of nextIndex when it ends
RECURSIVE LaunchLoopUnlimited(_, _, _, _)
LaunchLoopUnlimited(next, act, limit, n) ==
  IF next < n THEN LaunchLoopUnlimited(next + 1, act + 1, limit, n) ELSE next

LaunchLoopOnce(next, act, limit, n) ==
  IF act < limit /\ next < n THEN next + 1 ELSE next

RECURSIVE LaunchLoop(_, _, _, _)
LaunchLoop(next, act, limit, n) ==
  IF act < limit /\ next < n THEN LaunchLoop(next + 1, act + 1, limit, n) ELSE next

\* results[cur] = res
StoreResultAppended(res, cur, value) ==
  LET holes == {i \in DOMAIN res : ~res[i].defined}
  IN  [res EXCEPT ![CHOOSE i \in holes : \A j \in holes : i <= j] = value]

StoreResult(res, cur, value) == [res EXCEPT ![cur] = value]

\* how fn's promise settles when the vision call throws
FailureCaughtInTask == "fulfilled"

FailureSettles == "rejected"

\* if (selectedPages.length === 0) throw ...
NoPagesSelectedUnchecked(pages) == FALSE

NoPagesSelected(pages) == Len(pages) = 0

\* r.content && !/No tables detected/i.test(r.content)
KeepsPageOnlyEmptyDropped(r) == r.content # <<>>

KeepsPage(r) == r.content # <<>> /\ ~IncludesIgnoreCase(r.content, NoTablesPattern)

\* .sort((a, b) => a.page - b.page), a stable sort
RECURSIVE SortByPage(_)
SortByPage(rs) ==
  IF Len(rs) = 0 THEN <<>>
  ELSE LET k == CHOOSE i \in 1..Len(rs) :
                  \A j \in 1..Len(rs) :
                    rs[i].page < rs[j].page \/ (rs[i].page = rs[j].page /\ i <= j)
       IN  <<rs[k]>> \o SortByPage(SubSeq(rs, 1, k - 1) \o SubSeq(rs, k + 1, Len(rs)))

PartsOfWithoutHeadings(pageResults) ==
  LET kept == SortByPage(SelectSeq(pageResults, KeepsPage))
  IN  [i \in 1..Len(kept) |-> kept[i].content]

\* pageResults.filter(...).sort(...).map(r => `### Page ...`)
PartsOf(pageResults) ==
  LET kept == SortByPage(SelectSeq(pageResults, KeepsPage))
  IN  [i \in 1..Len(kept) |-> PagePart(kept[i])]

\* parts.length > 0 ? parts.join('\n\n') : 'No tables detected in the document.'
CombinedMarkdown(pageResults) ==
  LET parts == PartsOf(pageResults)
  IN  IF Len(parts) > 0 THEN Join(parts, BlankLine) ELSE NoTablesDocument

(***************************************************************************)
(* The Extract route: JavaScript values and plain objects used as maps     *)
(***************************************************************************)
\* A JavaScript value: t is its type, s the text of a string or of a number
\* (for a function, its name), o the own enumerable entries {k, v} of an
\* object in insertion order.
JsUndefined == [t |-> "undefined", s |-> <<>>, o |-> <<>>]
JsNull == [t |-> "null", s |-> <<>>, o |-> <<>>]
JsString(text) == [t |-> "string", s |-> text, o |-> <<>>]
JsNumber(text) == [t |-> "number", s |-> text, o |-> <<>>]
JsFunction(name) == [t |-> "function", s |-> name, o |-> <<>>]
JsObject(entries) == [t |-> "object", s |-> <<>>, o |-> entries]

\* {} of an object literal
EmptyObject == <<>>

ProtoKey == <<"_", "_", "p", "r", "o", "t", "o", "_", "_">>
ConstructorKey == <<"c", "o", "n", "s", "t", "r", "u", "c", "t", "o", "r">>
ToStringKey == <<"t", "o", "S", "t", "r", "i", "n", "g">>

\* value == null || value === undefined, the test of ?? and ?.
Nullish(v) == v.t \in {"null", "undefined"}

\* !value
Falsy(v) ==
  \/ Nullish(v)
  \/ v.t = "string" /\ v.s = <<>>
  \/ v.t = "number" /\ v.s = <<"0">>

HasOwn(o, k) == \E i \in 1..Len(o) : o[i].k = k

Own(o, k) == o[CHOOSE i \in 1..Len(o) : o[i].k = k].v

\* Object.keys(o)
Keys(o) == [i \in 1..Len(o) |-> o[i].k]

\* What Object.prototype answers for a name an object does not own: the
\* __proto__ accessor returns Object.prototype itself, constructor is the
\* function Object, toString is a function; other names are undefined.
ObjectPrototypeGet(k) ==
  IF k = ProtoKey THEN JsObject(EmptyObject)
  ELSE IF k = ConstructorKey THEN JsFunction(<<"O", "b", "j", "e", "c", "t">>)
  ELSE IF k = ToStringKey THEN JsFunction(ToStringKey)
  ELSE JsUndefined

\* o[k] of a plain object
Get(o, k) == IF HasOwn(o, k) THEN Own(o, k) ELSE ObjectPrototypeGet(k)

\* o[k] = v of a plain object: the __proto__ setter creates no own property
\* (and ignores a value that is not an object); any other name becomes or
\* stays an own property.
Set(o, k, v) ==
  IF k = ProtoKey THEN o
  ELSE IF HasOwn(o, k)
       THEN [i \in 1..Len(o) |-> IF o[i].k = k THEN [k |-> k, v |-> v] ELSE o[i]]
       ELSE Append(o, [k |-> k, v |-> v])

\* Function.prototype.toString of a built-in function
FunctionText(name) == <<"f", "u", "n", "c", "t", "i", "o", "n", " ">> \o name \o <<"(", ")", " ",
      "{", " ", "[", "n", "a", "t", "i", "v", "e", " ", "c", "o", "d", "e", "]", " ", "}">>

ObjectObjectText == <<"[", "o", "b", "j", "e", "c", "t", " ", "O", "b", "j", "e", "c", "t", "]">>

\* value.toString(), String(value) and the conversion of a property key:
\* an object whose own toString is data (all JSON can give it) has nothing
\* callable to convert it, and the conversion throws a TypeError.
ToStr(v) ==
  IF v.t \in {"string", "number"} THEN [throws |-> FALSE, s |-> v.s]
  ELSE IF v.t = "function" THEN [throws |-> FALSE, s |-> FunctionText(v.s)]
  ELSE IF v.t = "object"
       THEN IF HasOwn(v.o, ToStringKey) THEN [throws |-> TRUE, s |-> <<>>]
            ELSE [throws |-> FALSE, s |-> ObjectObjectText]
  ELSE [throws |-> FALSE, s |-> IF v.t = "null" THEN <<"n", "u", "l", "l">> ELSE <<"u", "n", "d",
        "e", "f", "i", "n", "e", "d">>]

\* Object.entries(value): own entries of an object, index/character pairs of
\* a string, nothing of a number
EntriesOf(v) ==
  IF v.t = "object" THEN v.o
  ELSE IF v.t = "string"
       THEN [i \in 1..Len(v.s) |-> [k |-> Decimal(i - 1), v |-> JsString(<<v.s[i]>>)]]
  ELSE <<>>

NoExtractResponse ==
  [status |-> 0, fields |-> EmptyObject, order |-> <<>>, usage |-> ZeroUsage,
   error |-> "", details |-> ""]

NoBody ==
  [valid |-> FALSE, markdown |-> JsUndefined,
   fields |-> [array |-> FALSE, items |-> <<>>], aliases |-> JsUndefined]

ExtIdle ==
  /\ extractPc = "done"
  /\ extractBody = NoBody
  /\ apiKey = FALSE
  /\ modelOutcome = "none"
  /\ heuristicRan = FALSE
  /\ modelParsed = JsObject(EmptyObject)
  /\ parsed = JsObject(EmptyObject)
  /\ extractResponse = NoExtractResponse

\* no function is called on its own
NoCall == [fn |-> "none"]

NoResult == [done |-> FALSE]

CallIdle == callIn = NoCall /\ callOut = NoResult

\* no mapLimit call is followed on its own, and no page is open in a browser
NoClient == [open |-> FALSE]

MoreIdle == requests = <<>> /\ client = NoClient

ParseIdle ==
  /\ parseIn = [spec |-> <<>>, total |-> 1]
  /\ parseOut = [done |-> TRUE, pages |-> <<>>]

SelIdle ==
  /\ selIn = [totalPages |-> 1, maxPages |-> QAbsent, start |-> QAbsent,
              end |-> QAbsent, pagesSpec |-> <<>>, excludeSpec |-> <<>>]
  /\ selOut = [done |-> TRUE, firstPage |-> 1, lastPage |-> 1, pages |-> <<1>>]

\* the inputs of the modelled Convert requests
ConvQuery ==
  [maxPages : {QAbsent, QNum(2)}, start : {QAbsent, QNum(2)}, end : {QAbsent},
   concurrency : {QAbsent, QNum(1), QNum(3)},
   pagesSpec : {<<>>, <<"3", ",", "1">>},
   excludeSpec : {<<>>, <<"2">>, <<"1", "-", "3">>}]

EnvConcurrencyValues == {QAbsent}

ConvIdle ==
  /\ openai = FALSE
  /\ pc = "done"
  /\ cfg = NoCfg
  /\ totalPages = 0
  /\ selectedPages = <<>>
  /\ pageImages = <<>>
  /\ results = <<>>
  /\ nextIndex = 0
  /\ active = 0
  /\ promise = "none"
  /\ unit = <<>>
  /\ fnValue = <<>>
  /\ usageInfo = ZeroUsage
  /\ response = NoResponse
  /\ visionCalls = <<>>
  /\ reply = <<>>
  /\ settleOrder = <<>>

Init ==
  /\ openai \in BOOLEAN
  /\ pc = "received"
  /\ cfg = NoCfg
  /\ totalPages = 0
  /\ selectedPages = <<>>
  /\ pageImages = <<>>
  /\ results = <<>>
  /\ nextIndex = 0
  /\ active = 0
  /\ promise = "none"
  /\ unit = <<>>
  /\ fnValue = <<>>
  /\ usageInfo = ZeroUsage
  /\ response = NoResponse
  /\ visionCalls = <<>>
  /\ reply = <<>>
  /\ settleOrder = <<>>
  /\ ParseIdle
  /\ SelIdle
  /\ ExtIdle
  /\ CallIdle
  /\ MoreIdle

Respond(r) == response' = r /\ pc' = "done"

\* The query parameters are parsed, the body is read and told apart, the
\* client is checked and the accumulators are created.
ReceiveRequest ==
  /\ pc = "received"
  /\ \E q \in ConvQuery, env \in EnvConcurrencyValues, body \in RequestBodies :
       /\ cfg' = [maxPagesCfg    |-> maxPagesCfgOf(NumberOf(q.maxPages)),
                  startPageCfg   |-> startPageCfgOf(NumberOf(q.start)),
                  endPageCfgRaw  |-> endPageCfgRawOf(NumberOf(q.end)),
                  concurrencyCfg |-> concurrencyCfgOf(NumberOf(q.concurrency),
                                                      envConcurrencyOf(env)),
                  pagesSpec      |-> Trim(q.pagesSpec),
                  excludeSpec    |-> Trim(q.excludeSpec)]
       /\ CASE body \in {"json without image dataUrl", "form without file", "form other file"}
                 -> Respond(ErrorOnly(400))
            [] body = "other content type" -> Respond(ErrorOnly(415))
            [] body = "json unparsable" -> Respond(CaughtResponse("Unexpected token"))
            [] OTHER ->
                 IF ~openai THEN Respond(ErrorOnly(500))
                 ELSE /\ pc' = (IF body = "form pdf file" THEN "pdf" ELSE "image")
                      /\ UNCHANGED response
  /\ UNCHANGED <<openai, totalPages, selectedPages, pageImages, results, nextIndex,
                 active, promise, unit, fnValue, usageInfo, visionCalls, reply, settleOrder>>
  /\ UNCHANGED <<parseVars, selVars, extVars, callVars, moreVars>>

\* The image branch: one vision call; its answer, or its failure.
ImageCall ==
  /\ pc = "image"
  /\ visionCalls' = Append(visionCalls, 0)
  /\ \/ \E a \in VisionAnswers :
          LET usage == IF a.hasUsage
                       THEN [prompt_tokens |-> a.prompt_tokens,
                             completion_tokens |-> a.completion_tokens,
                             total_tokens |-> a.total_tokens]
                       ELSE ZeroUsage
              \* "No content extracted"
              markdown == IF a.hasContent /\ a.content # <<>> THEN a.content
                          ELSE <<"N", "o", " ", "c", "o", "n", "t", "e", "n", "t", " ",
                                 "e", "x", "t", "r", "a", "c", "t", "e", "d">>
          IN  /\ usageInfo' = usage
              /\ Respond(SuccessResponse(markdown, usage))
     \/ /\ Respond(CaughtResponse("vision call failed"))
        /\ UNCHANGED usageInfo
  /\ UNCHANGED <<openai, cfg, totalPages, selectedPages, pageImages, results, nextIndex,
                 active, promise, unit, fnValue, reply, settleOrder>>
  /\ UNCHANGED <<parseVars, selVars, extVars, callVars, moreVars>>

\* pdfToImageDataUrls up to the first page render: the document is loaded
\* and the page selection resolved; an empty selection throws.
OpenPdf ==
  /\ pc = "pdf"
  /\ \/ \E n \in 1..MaxDocPages :
          LET lastPage  == lastPageOf(n, cfg.startPageCfg, cfg.endPageCfgRaw, cfg.maxPagesCfg)
              firstPage == firstPageOf(cfg.startPageCfg, lastPage)
              pages == selectedPagesOf(n, firstPage, lastPage, cfg.pagesSpec, cfg.excludeSpec)
          IN  /\ totalPages' = n
              /\ selectedPages' = pages
              /\ IF NoPagesSelected(pages)
                 THEN Respond(CaughtResponse("No pages selected after applying include/exclude."))
                 ELSE pc' = "render" /\ UNCHANGED response
     \/ /\ Respond(CaughtResponse("Invalid PDF structure"))
        /\ UNCHANGED <<totalPages, selectedPages>>
  /\ UNCHANGED <<openai, cfg, pageImages, results, nextIndex, active, promise, unit,
                 fnValue, usageInfo, visionCalls, reply, settleOrder>>
  /\ UNCHANGED <<parseVars, selVars, extVars, callVars, moreVars>>

\* one turn of the loop over selectedPages: the page is rendered and pushed
RenderPage ==
  /\ pc = "render"
  /\ Len(pageImages) < Len(selectedPages)
  /\ pageImages' = Append(pageImages, selectedPages[Len(pageImages) + 1])
  /\ UNCHANGED <<openai, pc, cfg, totalPages, selectedPages, results, nextIndex, active,
                 promise, unit, fnValue, usageInfo, response, visionCalls, reply, settleOrder>>
  /\ UNCHANGED <<parseVars, selVars, extVars, callVars, moreVars>>

\* getPage or render rejects
RenderFails ==
  /\ pc = "render"
  /\ Len(pageImages) < Len(selectedPages)
  /\ Respond(CaughtResponse("render failed"))
  /\ UNCHANGED <<openai, cfg, totalPages, selectedPages, pageImages, results, nextIndex,
                 active, promise, unit, fnValue, usageInfo, visionCalls, reply, settleOrder>>
  /\ UNCHANGED <<parseVars, selVars, extVars, callVars, moreVars>>

\* response.usage?.prompt_tokens || 0, and so for the other two counters
usageOf(a) ==
  IF a.hasUsage
  THEN [prompt_tokens |-> a.prompt_tokens, completion_tokens |-> a.completion_tokens,
        total_tokens |-> a.total_tokens]
  ELSE ZeroUsage

AddUsageOverwrites(acc, u) == u

\* usageInfo.prompt_tokens += ..., and so for the other two counters
AddUsage(acc, u) ==
  [prompt_tokens |-> acc.prompt_tokens + u.prompt_tokens,
   completion_tokens |-> acc.completion_tokens + u.completion_tokens,
   total_tokens |-> acc.total_tokens + u.total_tokens]

launchNextWithoutAdvance(next, act, n) ==
  LET newNext == LaunchLoop(next, act, cfg.concurrencyCfg, n)
      newAct  == act + (newNext - next)
  IN  [nextIndex |-> next,
       active    |-> newAct,
       started   |-> next..(newNext - 1),
       resolves  |-> next >= n /\ newAct = 0]

launchNextFromEnd(next, act, n) ==
  LET newNext == LaunchLoop(next, act, cfg.concurrencyCfg, n)
      newAct  == act + (newNext - next)
  IN  [nextIndex |-> newNext,
       active    |-> newAct,
       started   |-> {n - 1 - k : k \in next..(newNext - 1)},
       resolves  |-> newNext >= n /\ newAct = 0]

\* launchNext(): the units it starts (each start issues the vision call of
\* its page) and whether it calls resolve(results)
launchNext(next, act, n) ==
  LET newNext == LaunchLoop(next, act, cfg.concurrencyCfg, n)
      newAct  == act + (newNext - next)
  IN  [nextIndex |-> newNext,
       active    |-> newAct,
       started   |-> next..(newNext - 1),
       resolves  |-> newNext >= n /\ newAct = 0]

\* mapLimit(pageImages, concurrencyCfg, fn): the arrays are created and
\* launchNext runs for the first time.
CallMapLimit ==
  /\ pc = "render"
  /\ Len(pageImages) = Len(selectedPages)
  /\ LET n == Len(pageImages)
         l == launchNext(0, 0, n)
     IN  /\ results' = [i \in 0..(n - 1) |-> Hole]
         /\ fnValue' = [i \in 0..(n - 1) |-> Hole]
         /\ reply' = [i \in 0..(n - 1) |-> [state |-> "none", text |-> <<>>, usage |-> ZeroUsage]]
         /\ nextIndex' = l.nextIndex
         /\ active' = l.active
         /\ unit' = [i \in 0..(n - 1) |-> IF i \in l.started THEN "running" ELSE "unstarted"]
         /\ visionCalls' = [k \in 1..Cardinality(l.started) |-> pageImages[k]]
         /\ promise' = IF l.resolves THEN "resolved" ELSE "pending"
  /\ pc' = "await"
  /\ UNCHANGED <<openai, cfg, totalPages, selectedPages, pageImages, usageInfo, response,
                 settleOrder>>
  /\ UNCHANGED <<parseVars, selVars, extVars, callVars, moreVars>>

\* the vision call of unit i answers: the page task adds the usage and
\* returns { page, content }
PageAnswers(i) ==
  /\ unit[i] = "running"
  /\ \E a \in VisionAnswers :
       /\ usageInfo' = AddUsage(usageInfo, usageOf(a))
       /\ fnValue' = [fnValue EXCEPT ![i] =
            [defined |-> TRUE, page |-> pageImages[i + 1],
             content |-> IF a.hasContent THEN Trim(a.content) ELSE <<>>]]
       /\ reply' = [reply EXCEPT ![i] =
            [state |-> "answered", text |-> IF a.hasContent THEN a.content ELSE <<>>,
             usage |-> usageOf(a)]]
  /\ settleOrder' = Append(settleOrder, i)
  /\ unit' = [unit EXCEPT ![i] = "fulfilled"]
  /\ UNCHANGED <<openai, pc, cfg, totalPages, selectedPages, pageImages, results,
                 nextIndex, active, promise, response, visionCalls>>
  /\ UNCHANGED <<parseVars, selVars, extVars, callVars, moreVars>>

\* the vision call of unit i throws
PageFails(i) ==
  /\ unit[i] = "running"
  /\ unit' = [unit EXCEPT ![i] = FailureSettles]
  /\ reply' = [reply EXCEPT ![i] = [state |-> "threw", text |-> <<>>, usage |-> ZeroUsage]]
  /\ settleOrder' = Append(settleOrder, i)
  /\ UNCHANGED <<openai, pc, cfg, totalPages, selectedPages, pageImages, results,
                 nextIndex, active, promise, fnValue, usageInfo, response, visionCalls>>
  /\ UNCHANGED <<parseVars, selVars, extVars, callVars, moreVars>>

\* .then((res) => { results[cur] = res; active--; launchNext(); })
ThenHandler(i) ==
  /\ unit[i] = "fulfilled"
  /\ LET n == Len(pageImages)
         l == launchNext(nextIndex, active - 1, n)
     IN  /\ results' = StoreResult(results, i, fnValue[i])
         /\ nextIndex' = l.nextIndex
         /\ active' = l.active
         /\ unit' = [k \in 0..(n - 1) |->
                       IF k = i THEN "done"
                       ELSE IF k \in l.started THEN "running" ELSE unit[k]]
         /\ visionCalls' = visionCalls \o [k \in 1..Cardinality(l.started) |->
                                             pageImages[nextIndex + k]]
         /\ promise' = IF l.resolves /\ promise = "pending" THEN "resolved" ELSE promise
  /\ UNCHANGED <<openai, pc, cfg, totalPages, selectedPages, pageImages, fnValue,
                 usageInfo, response, reply, settleOrder>>
  /\ UNCHANGED <<parseVars, selVars, extVars, callVars, moreVars>>

\* .catch(reject)
CatchHandler(i) ==
  /\ unit[i] = "rejected"
  /\ unit' = [unit EXCEPT ![i] = "failed"]
  /\ promise' = IF promise = "pending" THEN "rejected" ELSE promise
  /\ UNCHANGED <<openai, pc, cfg, totalPages, selectedPages, pageImages, results,
                 nextIndex, active, fnValue, usageInfo, response, visionCalls, reply, settleOrder>>
  /\ UNCHANGED <<parseVars, selVars, extVars, callVars, moreVars>>

\* await mapLimit(...) returns: the page results are combined and sent
Combine ==
  /\ pc = "await"
  /\ promise = "resolved"
  /\ LET pageResults == [k \in 1..Len(pageImages) |-> results[k - 1]]
     IN  Respond(SuccessResponse(CombinedMarkdown(pageResults), usageInfo))
  /\ UNCHANGED <<openai, cfg, totalPages, selectedPages, pageImages, results, nextIndex,
                 active, promise, unit, fnValue, usageInfo, visionCalls, reply, settleOrder>>
  /\ UNCHANGED <<parseVars, selVars, extVars, callVars, moreVars>>

\* await mapLimit(...) throws: the catch block of POST answers
ConvertCatch ==
  /\ pc = "await"
  /\ promise = "rejected"
  /\ Respond(CaughtResponse("vision call failed"))
  /\ UNCHANGED <<openai, cfg, totalPages, selectedPages, pageImages, results, nextIndex,
                 active, promise, unit, fnValue, usageInfo, visionCalls, reply, settleOrder>>
  /\ UNCHANGED <<parseVars, selVars, extVars, callVars, moreVars>>

Next ==
  \/ ReceiveRequest
  \/ ImageCall
  \/ OpenPdf
  \/ RenderPage
  \/ RenderFails
  \/ CallMapLimit
  \/ \E i \in DOMAIN unit : PageAnswers(i)
  \/ \E i \in DOMAIN unit : PageFails(i)
  \/ \E i \in DOMAIN unit : ThenHandler(i)
  \/ \E i \in DOMAIN unit : CatchHandler(i)
  \/ Combine
  \/ ConvertCatch

Spec == Init /\ [][Next]_vars

(***************************************************************************)
(* parsePageSpec on its own: every text over SpecChars up to MaxSpecLen    *)
(* characters, and the documented examples.                                *)
(***************************************************************************)
SpecChars == {"0", "1", "3", "-", ",", " ", "x"}

RECURSIVE StringsUpTo(_, _)
StringsUpTo(chars, n) ==
  IF n = 0 THEN {<<>>}
  ELSE LET shorter == StringsUpTo(chars, n - 1)
       IN  shorter \cup {Append(s, c) : s \in shorter, c \in chars}

Example_1_3_5to7 == <<"1", ",", "3", ",", "5", "-", "7">>
Example_0_11 == <<"0", ",", "1", "1">>
Example_7to5 == <<"7", "-", "5">>

ParseInputs ==
  [spec : StringsUpTo(SpecChars, MaxSpecLen), total : 1..MaxTotal]
    \cup [spec : {Example_1_3_5to7, Example_0_11, Example_7to5, <<"5", " ", "-", "7">>},
          total : {10}]
    \cup [spec : {<<"x", ",", "3", "-", "1">>, <<"1", "-", "x", ",", "0", "2">>},
          total : 1..MaxTotal]

InitParse ==
  /\ parseIn \in ParseInputs
  /\ parseOut = [done |-> FALSE, pages |-> <<>>]
  /\ SelIdle
  /\ ConvIdle
  /\ ExtIdle
  /\ CallIdle
  /\ MoreIdle

CallParsePageSpec ==
  /\ ~parseOut.done
  /\ parseOut' = [done |-> TRUE, pages |-> parsePageSpec(parseIn.spec, parseIn.total)]
  /\ UNCHANGED <<parseIn, selVars, convVars, extVars, callVars, moreVars>>

NextParse == CallParsePageSpec

SpecParse == InitParse /\ [][NextParse]_vars

(***************************************************************************)
(* The page selection on its own: the query values as the route reads      *)
(* them, a document of 1..MaxTotal pages, include and exclude specs.       *)
(***************************************************************************)
QueryValues == {QAbsent, QText} \cup {QNum(n) : n \in (-1)..MaxParam}

SelectSpecs ==
  { <<>>,
    <<"2">>,
    <<"1", "-", "3">>,
    <<"3", ",", "1">>,
    <<"9">>,
    <<"4", "-", "2">> }

SelInputs ==
  [totalPages : 1..MaxTotal, maxPages : QueryValues, start : QueryValues,
   end : QueryValues, pagesSpec : SelectSpecs, excludeSpec : SelectSpecs]
    \cup {[totalPages |-> 10, maxPages |-> QAbsent, start |-> QNum(3),
           end |-> QNum(8), pagesSpec |-> <<>>, excludeSpec |-> <<"5">>]}
    \cup [totalPages : {MaxPagesCap + 2}, maxPages : {QNum(MaxPagesCap + 1)},
          start : {QAbsent, QNum(2)}, end : {QAbsent}, pagesSpec : {<<>>},
          excludeSpec : {<<>>, <<"2">>}]

InitSelect ==
  /\ selIn \in SelInputs
  /\ selOut = [done |-> FALSE, firstPage |-> 0, lastPage |-> 0, pages |-> <<>>]
  /\ ParseIdle
  /\ ConvIdle
  /\ ExtIdle
  /\ CallIdle
  /\ MoreIdle

ResolvePages ==
  /\ ~selOut.done
  /\ LET startPageCfg  == startPageCfgOf(NumberOf(selIn.start))
         endPageCfgRaw == endPageCfgRawOf(NumberOf(selIn.end))
         maxPagesCfg   == maxPagesCfgOf(NumberOf(selIn.maxPages))
         lastPage  == lastPageOf(selIn.totalPages, startPageCfg, endPageCfgRaw, maxPagesCfg)
         firstPage == firstPageOf(startPageCfg, lastPage)
     IN  selOut' = [done |-> TRUE, firstPage |-> firstPage, lastPage |-> lastPage,
                    pages |-> selectedPagesOf(selIn.totalPages, firstPage, lastPage,
                                              selIn.pagesSpec, selIn.excludeSpec)]
  /\ UNCHANGED <<selIn, parseVars, convVars, extVars, callVars, moreVars>>

NextSelect == ResolvePages

SpecSelect == InitSelect /\ [][NextSelect]_vars

(***************************************************************************)
(* The Extract route: schema, synonym rules and the heuristic extractor    *)
(***************************************************************************)
DEFAULT_FIELDS ==
  << <<"m", "a", "n", "u", "f", "a", "c", "t", "u", "r", "e", "r">>,
     <<"p", "u", "m", "p", " ", "m", "o", "d", "e", "l", " ", "n", "a", "m", "e">>,
     <<"r", "a", "t", "e", "d", " ", "f", "l", "o", "w">>,
     <<"m", "a", "x", " ", "f", "l", "o", "w">>,
     <<"m", "i", "n", " ", "f", "l", "o", "w">>,
     <<"n", "o", "r", "m", "a", "l", " ", "f", "l", "o", "w">>,
     <<"T", "D", "H">>,
     <<"c", "a", "s", "i", "n", "g", " ", "m", "a", "t", "e", "r", "i", "a", "l">>,
     <<"s", "h", "a", "f", "t", " ", "m", "a", "t", "e", "r", "i", "a", "l">>,
     <<"i", "m", "p", "e", "l", "l", "e", "r", " ", "m", "a", "t", "e", "r", "i", "a", "l">>,
     <<"s", "h", "a", "f", "t", " ", "p", "o", "w", "e", "r">>,
     <<"p", "u", "m", "p", " ", "e", "f", "f", "i", "c", "i", "e", "n", "c", "y">>,
     <<"s", "h", "u", "t", "o", "f", "f", " ", "T", "D", "H">> >>

Rule(key, match, exclude) == [key |-> key, match |-> match, exclude |-> exclude]

\* the own entries of the SYNONYMS object, in source order
SYNONYMS ==
  << Rule(<<"m", "a", "n", "u", "f", "a", "c", "t", "u", "r", "e", "r">>,
          << <<"m", "a", "n", "u", "f", "a", "c", "t", "u", "r", "e", "r">>, <<"m", "a", "k", "e",
                "r">>, <<"b", "r", "a", "n", "d">>, <<"c", "o", "m", "p", "a", "n", "y">> >>, <<>>),
     Rule(<<"p", "u", "m", "p", " ", "m", "o", "d", "e", "l", " ", "n", "a", "m", "e">>,
          << <<"p", "u", "m", "p", " ", "m", "o", "d", "e", "l", " ", "n", "a", "m", "e">>, <<"m",
                "o", "d", "e", "l">>, <<"p", "u", "m", "p", " ", "m", "o", "d", "e", "l">>, <<"m",
                "o", "d", "e", "l", " ", "n", "a", "m", "e">> >>, <<>>),
     Rule(<<"r", "a", "t", "e", "d", " ", "f", "l", "o", "w">>,
          << <<"r", "a", "t", "e", "d", " ", "f", "l", "o", "w">>, <<"q", " ", "r", "a", "t", "e",
                "d">>, <<"q", " ", "a", "t", " ", "r", "a", "t", "e", "d">>, <<"f", "l", "o",
                "w">> >>,
          << <<"n", "o", "m", "i", "n", "a", "l", " ", "f", "l", "o", "w">>, <<"f", "l", "o", "w",
                " ", "(", "n", "o", "m", "i", "n", "a", "l", ")">> >>),
     Rule(<<"n", "o", "r", "m", "a", "l", " ", "f", "l", "o", "w">>,
          << <<"n", "o", "r", "m", "a", "l", " ", "f", "l", "o", "w">>, <<"n", "o", "m", "i", "n",
                "a", "l", " ", "f", "l", "o", "w">>, <<"f", "l", "o", "w", " ", "(", "n", "o",
                "m", "i", "n", "a", "l", ")">>, <<"q", " ", "n", "o", "m", "i", "n", "a", "l">> >>,
          << <<"r", "a", "t", "e", "d", " ", "f", "l", "o", "w">> >>),
     Rule(<<"T", "D", "H">>,
          << <<"t", "d", "h">>, <<"t", "o", "t", "a", "l", " ", "d", "y", "n", "a", "m", "i", "c",
                " ", "h", "e", "a", "d">>, <<"h", "e", "a", "d">>,
             <<"h", "e", "a", "d", " ", "(", "a", "t", " ", "q", "m", "a", "x", ".", "-", "q",
                   "n", "o", "m", "i", "n", "a", "l", "-", "q", "m", "i", "n", ".", ")">>, <<"s",
                   "h", "u", "t", "o", "f", "f", " ", "h", "e", "a", "d">> >>, <<>>),
     Rule(<<"c", "a", "s", "i", "n", "g", " ", "m", "a", "t", "e", "r", "i", "a", "l">>,
          << <<"c", "a", "s", "i", "n", "g", " ", "m", "a", "t", "e", "r", "i", "a", "l">>, <<"p",
                "u", "m", "p", " ", "c", "a", "s", "i", "n", "g", " ", "m", "a", "t", "e", "r",
                "i", "a", "l">>, <<"c", "a", "s", "i", "n", "g">> >>, <<>>),
     Rule(<<"s", "h", "a", "f", "t", " ", "m", "a", "t", "e", "r", "i", "a", "l">>,
          << <<"s", "h", "a", "f", "t", " ", "m", "a", "t", "e", "r", "i", "a", "l">>, <<"s", "h",
                "a", "f", "t", " ", "m", "a", "t", "e", "r", "i", "a", "l", " ", "(", "p", "u",
                "m", "p", ")">>, <<"s", "h", "a", "f", "t">> >>, <<>>),
     Rule(<<"i", "m", "p", "e", "l", "l", "e", "r", " ", "m", "a", "t", "e", "r", "i", "a", "l">>,
          << <<"i", "m", "p", "e", "l", "l", "e", "r", " ", "m", "a", "t", "e", "r", "i", "a",
                "l">>, <<"i", "m", "p", "e", "l", "l", "e", "r">> >>, <<>>),
     Rule(<<"s", "h", "a", "f", "t", " ", "p", "o", "w", "e", "r">>,
          << <<"s", "h", "a", "f", "t", " ", "p", "o", "w", "e", "r">>, <<"s", "h", "a", "f", "t",
                " ", "p", "o", "w", "e", "r", " ", "(", "p", "2", ")">>, <<"p", "2">>, <<"p", "o",
                "w", "e", "r", " ", "(", "s", "h", "a", "f", "t", ")">> >>, <<>>),
     Rule(<<"p", "u", "m", "p", " ", "e", "f", "f", "i", "c", "i", "e", "n", "c", "y">>,
          << <<"p", "u", "m", "p", " ", "e", "f", "f", "i", "c", "i", "e", "n", "c", "y">>, <<"m",
                "a", "x", ".", " ", "p", "u", "m", "p", " ", "e", "f", "f", "i", "c", "i", "e",
                "n", "c", "y">>, <<"e", "f", "f", "i", "c", "i", "e", "n", "c", "y">> >>, <<>>),
     Rule(<<"m", "a", "x", " ", "f", "l", "o", "w">>,
          << <<"m", "a", "x", " ", "f", "l", "o", "w">>, <<"q", " ", "m", "a", "x">>, <<"m", "a",
                "x", "i", "m", "u", "m", " ", "f", "l", "o", "w">> >>, <<>>),
     Rule(<<"m", "i", "n", " ", "f", "l", "o", "w">>,
          << <<"m", "i", "n", " ", "f", "l", "o", "w">>, <<"q", " ", "m", "i", "n">>, <<"m", "i",
                "n", "i", "m", "u", "m", " ", "f", "l", "o", "w">> >>, <<>>),
     Rule(<<"s", "h", "u", "t", "o", "f", "f", " ", "T", "D", "H">>,
          << <<"s", "h", "u", "t", "o", "f", "f", " ", "t", "d", "h">>, <<"s", "h", "u", "t", "-",
                "o", "f", "f", " ", "h", "e", "a", "d">>, <<"s", "h", "u", "t", " ", "o", "f",
                "f", " ", "h", "e", "a", "d">>, <<"h", "e", "a", "d", " ", "a", "t", " ", "s",
                "h", "u", "t", "o", "f", "f">> >>,
          << <<"h", "e", "a", "d", " ", "a", "t", " ", "Q", "M", "a", "x">>, <<"h", "e", "a", "d",
                " ", "a", "t", " ", "Q", "M", "i", "n">>, <<"T", "D", "H">> >>) >>

NoRule == Rule(<<>>, <<>>, <<>>)

\* rules[key]: the own entry of that name. What Object.prototype answers for
\* the other names has neither match nor exclude, like undefined.
RuleIn(rules, key) ==
  IF \E i \in 1..Len(rules) : rules[i].key = key
  THEN rules[CHOOSE i \in 1..Len(rules) : rules[i].key = key]
  ELSE NoRule

\* const syn = SYNONYMS[key]
RuleOf(key) == RuleIn(SYNONYMS, key)

\* syn?.match?.length ? syn.match : [key]
keysOf(syn, key) == IF Len(syn.match) > 0 THEN syn.match ELSE <<key>>

MinOf(S) == CHOOSE x \in S : \A y \in S : x <= y

RECURSIVE Flatten(_)
Flatten(seqs) == IF Len(seqs) = 0 THEN <<>> ELSE Head(seqs) \o Flatten(Tail(seqs))

\* the number of whitespace characters of line from position p on
RECURSIVE SpaceRun(_, _)
SpaceRun(line, p) ==
  IF p <= Len(line) /\ IsSpace(line[p]) THEN 1 + SpaceRun(line, p + 1) ELSE 0

\* p + n, p + n - 1, ..., p
Countdown(p, n) == [i \in 1..(n + 1) |-> p + n + 1 - i]

\* \s* at position p: the positions it can leave off at, longest run first
AfterSpaces(line, p) == Countdown(p, SpaceRun(line, p))

\* (?:\||:|=|-)
Separators == {"|", ":", "=", "-"}

\* (?:\||:|=|-)?\s* at position p: with the separator, then without it
StartsAt(line, p) ==
  (IF p <= Len(line) /\ line[p] \in Separators THEN AfterSpaces(line, p + 1) ELSE <<>>)
    \o AfterSpaces(line, p)

\* \s*(?:\||:|=|-)?\s* from position e, the end of the key: the positions
\* where the group can start, in the order the matcher tries them
GroupStarts(line, e) ==
  LET first == AfterSpaces(line, e)
  IN  Flatten([i \in 1..Len(first) |-> StartsAt(line, first[i])])

NoCapture == [found |-> FALSE, text |-> <<>>]

\* ([^|]+?)(?:\|.*)?$ : the group runs from q to the next "|" or to the end
GroupAt(line, q) ==
  LET bars == {j \in q..Len(line) : line[j] = "|"}
  IN  [found |-> TRUE,
       text |-> SubSeq(line, q, IF bars = {} THEN Len(line) ELSE MinOf(bars) - 1)]

\* the group starts at the first of the starts that is a character other
\* than "|"
CaptureAt(line, starts) ==
  LET ok == {i \in 1..Len(starts) : starts[i] <= Len(line) /\ line[starts[i]] # "|"}
  IN  IF ok = {} THEN NoCapture ELSE GroupAt(line, starts[MinOf(ok)])

CaptureFrom(line, e) == CaptureAt(line, GroupStarts(line, e))

\* ^(?:\|\s*)? : the positions where the key can start, in matching order
KeyStarts(line) ==
  IF Len(line) >= 1 /\ line[1] = "|" THEN AfterSpaces(line, 2) \o <<1>> ELSE <<1>>

\* an escaped key, matched at position p under the i flag
KeyAt(line, p, k) ==
  /\ p + Len(k) - 1 <= Len(line)
  /\ ToLower(Slice(line, p, p + Len(k) - 1)) = ToLower(k)

\* the alternatives of the pattern on a line: the key starts in order and,
\* for each, the keys in order
TriesFrom(line, keys, starts) ==
  Flatten([i \in 1..Len(starts) |->
            [j \in 1..Len(keys) |->
               IF KeyAt(line, starts[i], keys[j])
               THEN CaptureFrom(line, starts[i] + Len(keys[j]))
               ELSE NoCapture]])

FirstFound(tries) ==
  LET hits == {n \in 1..Len(tries) : tries[n].found}
  IN  IF hits = {} THEN NoCapture ELSE tries[MinOf(hits)]

\* line.match(pattern): the first alternative that succeeds
MatchLine(line, keys) == FirstFound(TriesFrom(line, keys, KeyStarts(line)))

TrimAll(cells) == [i \in 1..Len(cells) |-> Trim(cells[i])]

\* line.split('|').slice(1).map(c => c.trim())
CellsOf(line) == TrimAll(Tail(Split(line, "|")))

\* cells.length >= 2 && keys.some(k => cells[0].toLowerCase().includes(k.toLowerCase()))
CellsInclude(cells, keys) ==
  /\ Len(cells) >= 2
  /\ \E j \in 1..Len(keys) : IncludesIgnoreCase(cells[1], keys[j])

\* a pipe-table row whose first cell includes one of the keys
PipeRow(line, keys) ==
  /\ Len(line) >= 1 /\ line[1] = "|"
  /\ Len(Split(line, "|")) >= 3
  /\ CellsInclude(CellsOf(line), keys)

\* the first loop returns from the first line the pattern matches, the second
\* from the first pipe row, and '' is left
ValueOfMatches(lines, keys, matches) ==
  LET hits == {i \in 1..Len(lines) : matches[i].found}
      rows == {i \in 1..Len(lines) : PipeRow(lines[i], keys)}
  IN  IF hits # {} THEN Trim(matches[MinOf(hits)].text)
      ELSE IF rows # {} THEN CellsOf(lines[MinOf(rows)])[2]
      ELSE <<>>

findValueByKeys(lines, keys) ==
  ValueOfMatches(lines, keys, [i \in 1..Len(lines) |-> MatchLine(lines[i], keys)])

\* (markdown || '').replace(/\r/g, '').split('\n').map(l => l.trim())
LinesOf(markdown) == TrimAll(Split(FilterSeq(markdown, LAMBDA c : c # "\r"), "\n"))

KeptValueExcludeFirst(value, keys, exclude) ==
  IF /\ Len(exclude) > 0
     /\ Len(value) > 0
     /\ \E j \in 1..Len(exclude) : IncludesIgnoreCase(value, exclude[j])
  THEN <<>>
  ELSE value

\* the exclude rule: a value that names none of the keys and one of the
\* excludes is replaced by ''
KeptValue(value, keys, exclude) ==
  IF /\ Len(exclude) > 0
     /\ Len(value) > 0
     /\ ~\E j \in 1..Len(keys) : IncludesIgnoreCase(value, keys[j])
     /\ \E j \in 1..Len(exclude) : IncludesIgnoreCase(value, exclude[j])
  THEN <<>>
  ELSE value

ValueUnder(lines, keys, exclude) == KeptValue(findValueByKeys(lines, keys), keys, exclude)

\* exclude is syn?.exclude ?? []
RuleValue(lines, syn, key) == ValueUnder(lines, keysOf(syn, key), syn.exclude)

\* the value heuristicExtract stores for one requested key
heuristicValue(lines, key) == RuleValue(lines, RuleOf(key), key)

RECURSIVE heuristicLoop(_, _, _)
heuristicLoop(lines, requested, out) ==
  IF Len(requested) = 0 THEN out
  ELSE heuristicLoop(lines, Tail(requested),
                     Set(out, Head(requested), JsString(heuristicValue(lines, Head(requested)))))

heuristicExtract(markdown, requested) == heuristicLoop(LinesOf(markdown), requested, EmptyObject)

(***************************************************************************)
(* The Extract route: POST of /api/extract for one request                 *)
(***************************************************************************)
MarkdownCeiling == 20000

\* if (markdown.length > 20000) markdown = markdown.slice(0, 20000)
truncated(markdown) ==
  IF Len(markdown) > MarkdownCeiling THEN SubSeq(markdown, 1, MarkdownCeiling) ELSE markdown

\* Array.isArray(body?.fields) && body.fields.length > 0
\*   ? body.fields.map(s => String(s)) : DEFAULT_FIELDS
requestedFieldsOf(b) ==
  IF b.fields.array /\ Len(b.fields.items) > 0
  THEN [i \in 1..Len(b.fields.items) |-> ToStr(b.fields.items[i]).s]
  ELSE DEFAULT_FIELDS

\* String(s) throws a TypeError for an item that has nothing callable to
\* convert it
fieldsThrow(b) ==
  b.fields.array /\ \E i \in 1..Len(b.fields.items) : ToStr(b.fields.items[i]).throws

\* (body?.aliases && typeof body.aliases === 'object') ? body.aliases : {}
aliasesOf(b) ==
  IF ~Falsy(b.aliases) /\ b.aliases.t = "object" THEN b.aliases.o ELSE EmptyObject

\* typeof markdown !== 'string' || !markdown.trim()
markdownMissing(b) == b.markdown.t # "string" \/ Len(Trim(b.markdown.s)) = 0

\* The content of the model's message, by what the parser makes of it:
\* whether it is empty, what JSON.parse returns for the whole text, and what
\* it returns for the slice from the first "{" to the last "}".
Unparsable == [ok |-> FALSE, value |-> JsUndefined]
Parses(value) == [ok |-> TRUE, value |-> value]
Content(empty, whole, slice) == [empty |-> empty, whole |-> whole, slice |-> slice]

coerceToPlainJson(text) ==
  IF text.empty THEN JsObject(EmptyObject)
  ELSE IF text.whole.ok THEN text.whole.value
  ELSE IF text.slice.ok THEN text.slice.value
  ELSE JsObject(EmptyObject)

\* response.usage?.x || 0 of the three counters
extractUsageOf(usage) ==
  IF usage.present
  THEN [prompt_tokens |-> usage.p, completion_tokens |-> usage.c, total_tokens |-> usage.t]
  ELSE ZeroUsage

\* for (const [k, v] of Object.entries(parsed || {}))
\*   mapped[(aliases as any)[k] || k] = v
RECURSIVE aliasLoop(_, _, _)
aliasLoop(entries, aliases, mapped) ==
  IF Len(entries) = 0 THEN [throws |-> FALSE, o |-> mapped]
  ELSE LET k == Head(entries).k
           target == Get(aliases, k)
           mappedKey == IF Falsy(target) THEN JsString(k) ELSE target
           name == ToStr(mappedKey)
       IN  IF name.throws THEN [throws |-> TRUE, o |-> mapped]
           ELSE aliasLoop(Tail(entries), aliases, Set(mapped, name.s, Head(entries).v))

\* for (const key of requested) result[key] = (obj?.[key] ?? '').toString()
RECURSIVE normalizeLoop(_, _, _)
normalizeLoop(obj, requested, result) ==
  IF Len(requested) = 0 THEN [throws |-> FALSE, o |-> result]
  ELSE LET key == Head(requested)
           v == Get(obj, key)
           text == IF Nullish(v) THEN [throws |-> FALSE, s |-> <<>>] ELSE ToStr(v)
       IN  IF text.throws THEN [throws |-> TRUE, o |-> result]
           ELSE normalizeLoop(obj, Tail(requested), Set(result, key, JsString(text.s)))

normalizeFields(obj, requested) == normalizeLoop(obj, requested, EmptyObject)

\* for (const k of requestedFields) safe[k] = (fields[k] ?? '').toString()
safeOf(fields, requested) == normalizeLoop(fields, requested, EmptyObject)

\* NextResponse.json({ error: 'markdown is required in body' }, { status: 400 })
MarkdownRequired ==
  [NoExtractResponse EXCEPT !.status = 400, !.error = "markdown is required in body"]

\* the catch block of POST
ExtractFailed(details) ==
  [NoExtractResponse EXCEPT !.status = 500, !.error = "Failed to extract fields",
                            !.details = details]

\* NextResponse.json({ fields: safe, order: requestedFields, usage: usageInfo })
Extracted(safe, requested, usage) ==
  [NoExtractResponse EXCEPT !.status = 200, !.fields = safe, !.order = requested,
                            !.usage = usage]

ExtractRespond(r) == extractResponse' = r /\ extractPc' = "done"

\* The body is read, the requested fields and the aliases are taken from it
\* and the markdown is checked.
ReceiveExtract ==
  /\ extractPc = "received"
  /\ IF ~extractBody.valid THEN ExtractRespond(ExtractFailed("SyntaxError"))
     ELSE IF fieldsThrow(extractBody) THEN ExtractRespond(ExtractFailed("TypeError"))
     ELSE IF markdownMissing(extractBody) THEN ExtractRespond(MarkdownRequired)
     ELSE extractPc' = "model" /\ UNCHANGED extractResponse
  /\ UNCHANGED <<extractBody, apiKey, modelOutcome, heuristicRan, modelParsed, parsed>>
  /\ UNCHANGED <<parseVars, selVars, convVars, callVars, moreVars>>

useHeuristicOnEmptyObject(fromModel) == fromModel = JsObject(EmptyObject)

\* !parsed || Object.keys(parsed).length === 0
useHeuristicOn(fromModel) == Falsy(fromModel) \/ Len(Keys(EntriesOf(fromModel))) = 0

\* parsed, after the fallback
rawOf(fromModel, markdown, requested) ==
  IF useHeuristicOn(fromModel) THEN JsObject(heuristicExtract(markdown, requested))
  ELSE fromModel

\* a TypeError thrown on the way is caught by the outer catch
ResponseOfFields(fields, requested, usage) ==
  LET safe == safeOf(fields.o, requested)
  IN  IF fields.throws \/ safe.throws THEN ExtractFailed("TypeError")
      ELSE Extracted(safe.o, requested, usage)

ResponseOfMapped(mapped, requested, usage) ==
  IF mapped.throws THEN ExtractFailed("TypeError")
  ELSE ResponseOfFields(normalizeFields(mapped.o, requested), requested, usage)

\* aliases is always an object here, so the alias loop always runs
FinishRaw(raw, usage) ==
  /\ parsed' = raw
  /\ ExtractRespond(ResponseOfMapped(
         aliasLoop(EntriesOf(raw), aliasesOf(extractBody), EmptyObject),
         requestedFieldsOf(extractBody), usage))

\* From the end of the inner try to the response: the heuristic when the
\* parsed reply is falsy or has no keys, the aliases, the normalization.
FinishExtract(fromModel, usage) ==
  /\ modelParsed' = fromModel
  /\ heuristicRan' = useHeuristicOn(fromModel)
  /\ FinishRaw(rawOf(fromModel, truncated(extractBody.markdown.s),
                     requestedFieldsOf(extractBody)), usage)

\* The inner try throws: no API key, the call rejects, or the response has
\* no choices. The catch block is empty; parsed stays {} and usage zero.
ModelFails ==
  /\ extractPc = "model"
  /\ modelOutcome' = "failed"
  /\ FinishExtract(JsObject(EmptyObject), ZeroUsage)
  /\ UNCHANGED <<extractBody, apiKey>>
  /\ UNCHANGED <<parseVars, selVars, convVars, callVars, moreVars>>

\* what the modelled replies hold
Entry(k, v) == [k |-> k, v |-> v]

ModelContents ==
  { Content(TRUE, Unparsable, Unparsable),
    Content(FALSE, Unparsable, Unparsable),
    Content(FALSE, Parses(JsObject(EmptyObject)), Unparsable),
    Content(FALSE, Parses(JsNull), Unparsable),
    Content(FALSE, Parses(JsNumber(<<"5">>)), Unparsable),
    Content(FALSE, Parses(JsString(<<"a", "b">>)), Unparsable),
    Content(FALSE, Parses(JsObject(<<Entry(<<"m", "a", "n", "u", "f", "a", "c", "t", "u", "r",
          "e", "r">>, JsString(<<"A", "C", "M", "E">>)),
                                     Entry(<<"T", "D", "H">>, JsString(<<"1", "0", " ",
                                           "m">>))>>)), Unparsable),
    Content(FALSE, Unparsable,
            Parses(JsObject(<<Entry(<<"p", "u", "m", "p", " ", "m", "o", "d", "e", "l", " ", "n",
                  "a", "m", "e">>, JsString(<<"S", "M", ".", "V", "1">>)),
                              Entry(<<"e", "x", "t", "r", "a">>, JsString(<<"x">>))>>))),
    Content(FALSE, Parses(JsObject(<<Entry(<<"m", "a", "n", "u", "f", "a", "c", "t", "u", "r",
          "e", "r">>, JsNumber(<<"5">>)),
                                     Entry(<<"T", "D", "H">>, JsNull)>>)), Unparsable),
    Content(FALSE, Parses(JsObject(<<Entry(<<"m", "a", "n", "u", "f", "a", "c", "t", "u", "r",
          "e", "r">>,
                                           JsObject(<<Entry(<<"n", "a", "m",
                                                 "e">>, JsString(<<"A", "C", "M", "E">>))>>))>>)),
            Unparsable),
    Content(FALSE, Parses(JsObject(<<Entry(<<"m", "a", "n", "u", "f", "a", "c", "t", "u", "r",
          "e", "r">>,
                                           JsObject(<<Entry(ToStringKey, JsString(<<"A", "C", "M",
                                                 "E">>))>>))>>)),
            Unparsable),
    Content(FALSE, Parses(JsObject(<<Entry(<<"m", "o", "d", "e", "l">>, JsString(<<"S", "M", ".",
          "V", "1">>)),
                                     Entry(<<"M", "a", "k", "e", "r">>, JsString(<<"A", "C", "M",
                                           "E">>))>>)), Unparsable) }

ModelUsages ==
  {[present |-> FALSE, p |-> 0, c |-> 0, t |-> 0], [present |-> TRUE, p |-> 3, c |-> 2, t |-> 5]}

\* The call resolves: raw = response.choices[0]?.message?.content || '',
\* parsed = coerceToPlainJson(raw), usageInfo from response.usage.
ModelAnswers ==
  /\ extractPc = "model"
  /\ apiKey
  /\ \E content \in ModelContents, usage \in ModelUsages :
       /\ modelOutcome' = "answered"
       /\ FinishExtract(coerceToPlainJson(content), extractUsageOf(usage))
  /\ UNCHANGED <<extractBody, apiKey>>
  /\ UNCHANGED <<parseVars, selVars, convVars, callVars, moreVars>>

\* the modelled Extract requests
ExtractMarkdowns ==
  { JsUndefined,
    JsNumber(<<"5">>),
    JsString(<<" ", " ", "\n">>),
    JsString(<<"|", " ", "M", "o", "d", "e", "l", " ", "|", " ", "S", "M", ".", "V", "1", " ",
          "|">>),
    JsString(<<"S", "h", "u", "t", "o", "f", "f", " ", "T", "D", "H", ":", " ", "1", "5", ".",
          "5", " ", "m">>),
    JsString(<<"M", "a", "k", "e", "r", ":", " ", "A", "C", "M", "E", "\r", "\n", "T", "D", "H",
          " ", "|", " ", "1", "0", " ", "m", "\n", "|", " ", "c", "o", "n", "s", "t", "r", "u",
          "c", "t", "o", "r", " ", "|", " ", "s", "t", "e", "e", "l", " ", "|">>),
    JsString(<<"n", "o", " ", "r", "o", "w", "s", " ", "h", "e", "r", "e">>) }

ExtractFieldLists ==
  { [array |-> FALSE, items |-> <<>>],
    [array |-> TRUE, items |-> <<>>],
    [array |-> TRUE, items |-> <<JsString(<<"m", "a", "n", "u", "f", "a", "c", "t", "u", "r", "e",
          "r">>), JsString(<<"T", "D", "H">>)>>],
    [array |-> TRUE, items |-> <<JsString(<<"p", "u", "m", "p", " ", "m", "o", "d", "e", "l", " ",
          "n", "a", "m", "e">>), JsString(<<"x">>)>>],
    [array |-> TRUE, items |-> <<JsString(<<"s", "h", "u", "t", "o", "f", "f", " ", "T", "D",
          "H">>), JsNumber(<<"7">>)>>],
    [array |-> TRUE, items |-> <<JsString(ProtoKey)>>],
    [array |-> TRUE, items |-> <<JsObject(<<Entry(ToStringKey, JsString(<<"x">>))>>)>>],
    [array |-> TRUE, items |-> <<JsString(ConstructorKey), JsString(<<"m", "a", "n", "u", "f",
          "a", "c", "t", "u", "r", "e", "r">>)>>] }

ExtractAliases ==
  { JsUndefined,
    JsObject(<<Entry(<<"m", "o", "d", "e", "l">>, JsString(<<"p", "u", "m", "p", " ", "m", "o",
          "d", "e", "l", " ", "n", "a", "m", "e">>))>>),
    JsObject(<<Entry(<<"m", "o", "d", "e", "l">>, JsString(ProtoKey))>>),
    JsObject(<<Entry(<<"M", "a", "k", "e", "r">>, JsString(<<"m", "a", "n", "u", "f", "a", "c",
          "t", "u", "r", "e", "r">>)),
               Entry(<<"T", "D", "H">>, JsString(<<"x">>))>>) }

ExtractBodies ==
  {NoBody} \cup [valid : {TRUE}, markdown : ExtractMarkdowns,
                 fields : ExtractFieldLists, aliases : ExtractAliases]

InitExtract ==
  /\ extractPc = "received"
  /\ extractBody \in ExtractBodies
  /\ apiKey \in BOOLEAN
  /\ modelOutcome = "none"
  /\ heuristicRan = FALSE
  /\ modelParsed = JsObject(EmptyObject)
  /\ parsed = JsObject(EmptyObject)
  /\ extractResponse = NoExtractResponse
  /\ ParseIdle
  /\ SelIdle
  /\ ConvIdle
  /\ CallIdle
  /\ MoreIdle

NextExtract ==
  \/ ReceiveExtract
  \/ ModelFails
  \/ ModelAnswers

SpecExtract == InitExtract /\ [][NextExtract]_vars

(***************************************************************************)
(* heuristicExtract called on its own, for one requested field             *)
(***************************************************************************)
\* the candidate findValueByKeys returns for the field's keys, and the
\* object heuristicExtract returns
HeuristicOutcome(markdown, key) ==
  [done |-> TRUE,
   candidate |-> findValueByKeys(LinesOf(markdown), keysOf(RuleOf(key), key)),
   out |-> heuristicExtract(markdown, <<key>>)]

HeuristicMarkdowns ==
  { <<"S", "h", "u", "t", "o", "f", "f", " ", "T", "D", "H", ":", " ", "1", "5", ".", "5", " ",
        "m">>,
    <<"Q", " ", "n", "o", "m", "i", "n", "a", "l", ":", " ", "s", "e", "e", " ", "r", "a", "t",
          "e", "d", " ", "f", "l", "o", "w">>,
    <<"S", "h", "u", "t", "-", "o", "f", "f", " ", "h", "e", "a", "d", ":", " ", "T", "D", "H",
          " ", "1", "2", " ", "m">>,
    <<"S", "h", "u", "t", " ", "o", "f", "f", " ", "h", "e", "a", "d", ":", " ", "s", "h", "u",
          "t", "o", "f", "f", " ", "T", "D", "H", " ", "9">>,
    <<"F", "l", "o", "w", ":", " ", "n", "o", "m", "i", "n", "a", "l", " ", "f", "l", "o", "w",
          " ", "3">>,
    <<"M", "a", "k", "e", "r", ":", " ", "T", "D", "H">>,
    <<"|", " ", "N", "o", "m", "i", "n", "a", "l", " ", "f", "l", "o", "w", " ", "|", " ", "R",
          "a", "t", "e", "d", " ", "F", "l", "o", "w", " ", "7", " ", "|">>,
    <<"n", "o", " ", "r", "o", "w", "s", " ", "h", "e", "r", "e">>,
    <<"T", "D", "H", ":", " ", "1", "0", " ", "m", "\n", "H", "e", "a", "d", " ", "a", "t", " ",
          "s", "h", "u", "t", "o", "f", "f", " ", "=", " ", "h", "e", "a", "d", " ", "a", "t",
          " ", "q", "m", "i", "n", " ", "3">>,
    <<"|", " ", "P", "u", "m", "p", " ", "f", "l", "o", "w", " ", "|", " ", "5", " ", "|", "\n",
          "F", "l", "o", "w", ":", " ", "7">>,
    <<"M", "a", "k", "e", "r", ":", " ", "A", "C", "M", "E", "\n", "|", " ", "B", "r", "a", "n",
          "d", " ", "|", " ", "B", "e", "s", "t", " ", "|", "\n", "M", "a", "n", "u", "f", "a",
          "c", "t", "u", "r", "e", "r", " ", "=", " ", "O", "t", "h", "e", "r">> }

HeuristicKeys == SeqToSet(DEFAULT_FIELDS) \cup { <<"x">> }

HeuristicCalls ==
  [fn : {"heuristicExtract"}, markdown : HeuristicMarkdowns, key : HeuristicKeys]

HeuristicCall ==
  /\ callIn.fn = "heuristicExtract"
  /\ ~callOut.done
  /\ callOut' = HeuristicOutcome(callIn.markdown, callIn.key)
  /\ UNCHANGED callIn
  /\ UNCHANGED <<parseVars, selVars, convVars, extVars, moreVars>>

InitHeuristic ==
  /\ callIn \in HeuristicCalls
  /\ callOut = NoResult
  /\ ParseIdle
  /\ SelIdle
  /\ ConvIdle
  /\ ExtIdle
  /\ MoreIdle

NextHeuristic == HeuristicCall

SpecHeuristic == InitHeuristic /\ [][NextHeuristic]_vars

(***************************************************************************)
(* The concurrency limit of POST /api/convert, computed on its own         *)
(***************************************************************************)
\* the concurrency query parameter and the PDF_CONCURRENCY variable
ConcurrencyParams == {QAbsent, QText} \cup {QNum(n) : n \in (-1)..(MaxConcurrency + 2)}

ConcurrencyEnvs ==
  {QAbsent, QText}
    \cup {QNum(n) : n \in {-1, 0, MinConcurrency, DefaultConcurrency, MaxConcurrency,
                           MaxConcurrency + 3}}

ConcurrencyCalls ==
  [fn : {"concurrencyCfg"}, concurrency : ConcurrencyParams, env : ConcurrencyEnvs]

\* const envConcurrency = ...; const concurrencyParam = ...;
\* const concurrencyCfg = ...
ConcurrencyCall ==
  /\ callIn.fn = "concurrencyCfg"
  /\ ~callOut.done
  /\ callOut' = [done |-> TRUE,
                 limit |-> concurrencyCfgOf(NumberOf(callIn.concurrency),
                                            envConcurrencyOf(callIn.env))]
  /\ UNCHANGED callIn
  /\ UNCHANGED <<parseVars, selVars, convVars, extVars, moreVars>>

InitConcurrency ==
  /\ callIn \in ConcurrencyCalls
  /\ callOut = NoResult
  /\ ParseIdle
  /\ SelIdle
  /\ ConvIdle
  /\ ExtIdle
  /\ MoreIdle

NextConcurrency == ConcurrencyCall

SpecConcurrency == InitConcurrency /\ [][NextConcurrency]_vars

(***************************************************************************)
(* normalizeFields called on its own, once and on its own result           *)
(***************************************************************************)
\* the raw mappings: the objects the modelled replies parse to, and two more
NormalizeMappings ==
  {v \in {coerceToPlainJson(c) : c \in ModelContents} : v.t = "object"}
    \cup { JsObject(<<Entry(<<"x">>, JsString(<<>>)), Entry(<<"T", "D",
          "H">>, JsNumber(<<"0">>))>>),
           JsObject(<<Entry(ConstructorKey, JsString(<<"s", "t", "e", "e", "l">>))>>) }

NormalizeFieldLists ==
  {requestedFieldsOf([fields |-> f]) : f \in ExtractFieldLists}
    \cup { << <<"T", "D", "H">>, <<"T", "D", "H">> >>, << <<"x">> >>, << <<"0">>, <<"e", "x", "t",
          "r", "a">> >> }

NormalizeCalls ==
  [fn : {"normalizeFields"}, m : NormalizeMappings, requested : NormalizeFieldLists]

\* normalizeFields(m, F), and normalizeFields of what it returned
NormalizeOutcome(once, requested) ==
  [done |-> TRUE, once |-> once,
   twice |-> IF once.throws THEN once ELSE normalizeFields(once.o, requested)]

NormalizeCall ==
  /\ callIn.fn = "normalizeFields"
  /\ ~callOut.done
  /\ callOut' = NormalizeOutcome(normalizeFields(callIn.m.o, callIn.requested),
                                 callIn.requested)
  /\ UNCHANGED callIn
  /\ UNCHANGED <<parseVars, selVars, convVars, extVars, moreVars>>

InitNormalize ==
  /\ callIn \in NormalizeCalls
  /\ callOut = NoResult
  /\ ParseIdle
  /\ SelIdle
  /\ ConvIdle
  /\ ExtIdle
  /\ MoreIdle

NextNormalize == NormalizeCall

SpecNormalize == InitNormalize /\ [][NextNormalize]_vars

(***************************************************************************)
(* Convert requests side by side: each invocation of POST has its own      *)
(* usageInfo, its own mapLimit with its own results, nextIndex and active  *)
(***************************************************************************)
launchOfResolvesEarly(next, act, limit, n) ==
  LET newNext == LaunchLoop(next, act, limit, n)
      newAct  == act + (newNext - next)
  IN  [nextIndex |-> newNext,
       active    |-> newAct,
       started   |-> next..(newNext - 1),
       resolves  |-> newNext >= n]

\* launchNext() of a mapLimit call with the given limit
launchOf(next, act, limit, n) ==
  LET newNext == LaunchLoop(next, act, limit, n)
      newAct  == act + (newNext - next)
  IN  [nextIndex |-> newNext,
       active    |-> newAct,
       started   |-> next..(newNext - 1),
       resolves  |-> newNext >= n /\ newAct = 0]

usageScopeShared(r) == 1

\* let usageInfo = {...} is declared inside POST: the page tasks of a
\* request add to the accumulator of their own invocation
usageScope(r) == r

\* a request at the point where POST calls mapLimit(pageImages, limit, fn)
NewRequest(pages, limit) ==
  [pc |-> "start", pages |-> pages, limit |-> limit, results |-> <<>>,
   fnValue |-> <<>>, reply |-> <<>>, unit |-> <<>>, nextIndex |-> 0, active |-> 0,
   promise |-> "none", usageInfo |-> ZeroUsage, response |-> NoResponse]

\* mapLimit(...) is called: the arrays are created, launchNext runs once
Dispatched(q, l) ==
  [q EXCEPT !.pc = "await",
            !.results = [i \in 0..(Len(q.pages) - 1) |-> Hole],
            !.fnValue = [i \in 0..(Len(q.pages) - 1) |-> Hole],
            !.reply = [i \in 0..(Len(q.pages) - 1) |->
                         [state |-> "none", text |-> <<>>, usage |-> ZeroUsage]],
            !.unit = [i \in 0..(Len(q.pages) - 1) |->
                        IF i \in l.started THEN "running" ELSE "unstarted"],
            !.nextIndex = l.nextIndex,
            !.active = l.active,
            !.promise = IF l.resolves THEN "resolved" ELSE "pending"]

Dispatch(r) ==
  /\ requests[r].pc = "start"
  /\ requests' = [requests EXCEPT ![r] =
                    Dispatched(@, launchOf(0, 0, @.limit, Len(@.pages)))]
  /\ UNCHANGED client
  /\ UNCHANGED <<parseVars, selVars, convVars, extVars, callVars>>

\* the page task after its await: usage added, { page, content } returned
Answered(q, i, a) ==
  [q EXCEPT !.fnValue[i] = [defined |-> TRUE, page |-> q.pages[i + 1],
                            content |-> IF a.hasContent THEN Trim(a.content) ELSE <<>>],
            !.reply[i] = [state |-> "answered",
                          text |-> IF a.hasContent THEN a.content ELSE <<>>,
                          usage |-> usageOf(a)],
            !.unit[i] = "fulfilled"]

RequestAnswers ==
  { Answer(TableText, TRUE, TRUE, 2, 1),
    Answer(PaddedSentinel, TRUE, FALSE, 0, 0),
    Answer(<<" ", "|", "b", "|", "\n">>, TRUE, TRUE, 1, 1) }

UnitAnswers(r, i) ==
  /\ requests[r].unit[i] = "running"
  /\ \E a \in RequestAnswers :
       requests' = [requests EXCEPT ![r] = Answered(@, i, a),
                                    ![usageScope(r)].usageInfo = AddUsage(@, usageOf(a))]
  /\ UNCHANGED client
  /\ UNCHANGED <<parseVars, selVars, convVars, extVars, callVars>>

\* the vision call of the unit throws
UnitFails(r, i) ==
  /\ requests[r].unit[i] = "running"
  /\ requests' = [requests EXCEPT ![r].unit[i] = FailureSettles,
                                  ![r].reply[i].state = "threw"]
  /\ UNCHANGED client
  /\ UNCHANGED <<parseVars, selVars, convVars, extVars, callVars>>

\* .then((res) => { results[cur] = res; active--; launchNext(); })
Then(q, i, l) ==
  [q EXCEPT !.results = StoreResult(q.results, i, q.fnValue[i]),
            !.nextIndex = l.nextIndex,
            !.active = l.active,
            !.unit = [k \in DOMAIN q.unit |->
                        IF k = i THEN "done"
                        ELSE IF k \in l.started THEN "running" ELSE q.unit[k]],
            !.promise = IF l.resolves /\ q.promise = "pending" THEN "resolved"
                        ELSE q.promise]

UnitThen(r, i) ==
  /\ requests[r].unit[i] = "fulfilled"
  /\ requests' = [requests EXCEPT ![r] =
                    Then(@, i, launchOf(@.nextIndex, @.active - 1, @.limit, Len(@.pages)))]
  /\ UNCHANGED client
  /\ UNCHANGED <<parseVars, selVars, convVars, extVars, callVars>>

\* .catch(reject)
UnitCatch(r, i) ==
  /\ requests[r].unit[i] = "rejected"
  /\ requests' = [requests EXCEPT ![r].unit[i] = "failed",
                                  ![r].promise = IF @ = "pending" THEN "rejected" ELSE @]
  /\ UNCHANGED client
  /\ UNCHANGED <<parseVars, selVars, convVars, extVars, callVars>>

\* await mapLimit(...) returns or throws: the response of the request
ResponseOf(q, usage) ==
  IF q.promise = "resolved"
  THEN SuccessResponse(CombinedMarkdown([k \in 1..Len(q.pages) |-> q.results[k - 1]]), usage)
  ELSE CaughtResponse("vision call failed")

Answer200or500(r) ==
  /\ requests[r].pc = "await"
  /\ requests[r].promise \in {"resolved", "rejected"}
  /\ requests' = [requests EXCEPT ![r].pc = "done",
                                  ![r].response =
                                     ResponseOf(requests[r],
                                                requests[usageScope(r)].usageInfo)]
  /\ UNCHANGED client
  /\ UNCHANGED <<parseVars, selVars, convVars, extVars, callVars>>

NextRequests ==
  \/ \E r \in DOMAIN requests : Dispatch(r)
  \/ \E r \in DOMAIN requests : \E i \in DOMAIN requests[r].unit : UnitAnswers(r, i)
  \/ \E r \in DOMAIN requests : \E i \in DOMAIN requests[r].unit : UnitFails(r, i)
  \/ \E r \in DOMAIN requests : \E i \in DOMAIN requests[r].unit : UnitThen(r, i)
  \/ \E r \in DOMAIN requests : \E i \in DOMAIN requests[r].unit : UnitCatch(r, i)
  \/ \E r \in DOMAIN requests : Answer200or500(r)

\* two PDF requests of one or two pages each, under a limit of 1 or 2
TwoRequestPages == {<<1>>, <<2, 3>>}

InitTwoRequests ==
  /\ requests \in [1..2 -> {NewRequest(p, l) : p \in TwoRequestPages, l \in 1..2}]
  /\ client = NoClient
  /\ ParseIdle
  /\ SelIdle
  /\ ConvIdle
  /\ ExtIdle
  /\ CallIdle

SpecTwoRequests == InitTwoRequests /\ [][NextRequests]_vars

(***************************************************************************)
(* One mapLimit call on its own, for zero to three items and a limit of    *)
(* one to three.  The started units settle (the vision call answers or     *)
(* throws) and the event loop runs the .then and .catch callbacks of the   *)
(* settled ones: weak fairness on each of these steps.                     *)
(***************************************************************************)
MapLimitItems == {<<>>, <<1>>, <<1, 2>>, <<1, 2, 3>>}

InitMapLimit ==
  /\ requests \in [{1} -> {NewRequest(p, l) : p \in MapLimitItems, l \in 1..3}]
  /\ client = NoClient
  /\ ParseIdle
  /\ SelIdle
  /\ ConvIdle
  /\ ExtIdle
  /\ CallIdle

MapLimitFairness ==
  /\ WF_vars(Dispatch(1))
  /\ \A i \in 0..2 :
       WF_vars(i \in DOMAIN requests[1].unit /\ (UnitAnswers(1, i) \/ UnitFails(1, i)))
  /\ \A i \in 0..2 : WF_vars(i \in DOMAIN requests[1].unit /\ UnitThen(1, i))
  /\ \A i \in 0..2 : WF_vars(i \in DOMAIN requests[1].unit /\ UnitCatch(1, i))

SpecMapLimit == InitMapLimit /\ [][NextRequests]_vars /\ MapLimitFairness

(***************************************************************************)
(* The client page (page.tsx): the field rows, the user's removals and     *)
(* renames, and one extraction request.  `client` holds the React state    *)
(* the handlers touch: fields, deletedFields, fieldAliases (an object, as  *)
(* its entries in key order), the data of the selected case (caseData, a   *)
(* function from its keys to their values), the changed-field marks of     *)
(* that case and isExtracting.  handleExtract is an async function: the    *)
(* code after its await runs with the values of deletedFields,             *)
(* fieldAliases and cases that were current when the button was clicked    *)
(* (client.closure), while the functional updaters setX(prev => ...) see   *)
(* the current state.                                                      *)
(***************************************************************************)
ClientNames == {<<"T", "D", "H">>, <<"m", "a", "n", "u", "f", "a", "c", "t", "u", "r", "e",
      "r">>, <<"h", "e", "a", "d">>}

MaxEdits == 3

NoClosure == [deletedFields |-> <<>>, fieldAliases |-> <<>>, caseData |-> <<>>]

NoSentBody == [fields |-> <<>>, aliases |-> <<>>]

NoJson == [ok |-> FALSE, keys |-> <<>>, found |-> {}]

WithoutKey(data, k) == [x \in DOMAIN data \ {k} |-> data[x]]

WithKey(data, k, v) == [x \in DOMAIN data \cup {k} |-> IF x = k THEN v ELSE data[x]]

Truthy(data, k) == k \in DOMAIN data /\ data[k] # <<>>

PutAlias(al, k, v) ==
  IF HasOwn(al, k)
  THEN [i \in 1..Len(al) |-> IF al[i].k = k THEN Entry(k, v) ELSE al[i]]
  ELSE Append(al, Entry(k, v))

AppendMissing(list, ks) ==
  list \o SelectSeq(ks, LAMBDA k : k \notin SeqToSet(list))

(* json.fields of the response: its keys are the requested fields (the    *)
(* default schema when none was sent), its values "" or a found value.    *)
jsonValue(json, k) == IF k \in json.found THEN <<"5">> ELSE <<>>

answeredKeys(body) == IF body.fields = <<>> THEN DEFAULT_FIELDS ELSE body.fields

(* the first setCases of handleExtract: non-empty new values that differ  *)
(* from the current ones are merged into the selected case                *)
RECURSIVE mergeFields(_, _, _)
mergeFields(data, json, i) ==
  IF i > Len(json.keys) THEN data
  ELSE LET k == json.keys[i]
           v == jsonValue(json, k)
       IN mergeFields(IF v # <<>> /\ ~(k \in DOMAIN data /\ data[k] = v)
                      THEN WithKey(data, k, v) ELSE data, json, i + 1)

changedOf(prevCase, json) ==
  {k \in SeqToSet(json.keys) :
     jsonValue(json, k) # <<>> /\ ~(k \in DOMAIN prevCase /\ prevCase[k] = jsonValue(json, k))}

(* the second setCases: aliasKeys.forEach(move oldKey to its target)      *)
RECURSIVE moveAliases(_, _, _)
moveAliases(data, al, i) ==
  IF i > Len(al) THEN data
  ELSE LET oldKey == al[i].k
           newKey == al[i].v
       IN moveAliases(
            IF oldKey \in DOMAIN data
            THEN WithoutKey(IF ~Truthy(data, newKey) /\ data[oldKey] # <<>>
                            THEN WithKey(data, newKey, data[oldKey]) ELSE data, oldKey)
            ELSE data, al, i + 1)

dropDeleted(data, deleted) == [x \in DOMAIN data \ SeqToSet(deleted) |-> data[x]]

(* the second setFields: drop the deleted names, then every name that is  *)
(* a key of fieldAliases whose target is among the alias targets          *)
reconcileFields(list, deleted, al) ==
  LET targetSet == {al[i].v : i \in 1..Len(al)}
      filtered == SelectSeq(list, LAMBDA f : f \notin SeqToSet(deleted))
  IN SelectSeq(filtered, LAMBDA f : ~(HasOwn(al, f) /\ Own(al, f) \in targetSet))

handleRemoveField(index) ==
  /\ client.open
  /\ client.edits < MaxEdits
  /\ index \in 1..Len(client.fields)
  /\ LET field == client.fields[index]
     IN client' = [client EXCEPT
          !.fields = [i \in 1..(Len(@) - 1) |-> IF i < index THEN @[i] ELSE @[i + 1]],
          !.deletedFields = IF field \in SeqToSet(@) THEN @ ELSE Append(@, field),
          !.caseData = WithoutKey(@, field),
          !.changedFields = @ \ {field},
          !.edits = @ + 1]
  /\ UNCHANGED <<parseVars, selVars, convVars, extVars, callVars, requests>>

commitFieldRename(index, editingFieldName) ==
  /\ client.open
  /\ client.edits < MaxEdits
  /\ index \in 1..Len(client.fields)
  /\ LET prevName == client.fields[index]
         nextName == editingFieldName
     IN /\ nextName # <<>>
        /\ ~(nextName # prevName /\ nextName \in SeqToSet(client.fields))
        /\ client' = IF nextName = prevName
             THEN [client EXCEPT !.edits = @ + 1]
             ELSE [client EXCEPT
               !.fields = [@ EXCEPT ![index] = nextName],
               !.fieldAliases = PutAlias(@, prevName, nextName),
               !.deletedFields = SelectSeq(@, LAMBDA f : f # nextName),
               !.caseData = IF prevName \in DOMAIN @
                            THEN WithKey(WithoutKey(@, prevName), nextName, @[prevName])
                            ELSE @,
               !.changedFields = IF prevName \in @ THEN (@ \ {prevName}) \cup {nextName} ELSE @,
               !.edits = @ + 1]
  /\ UNCHANGED <<parseVars, selVars, convVars, extVars, callVars, requests>>

(* handleExtract up to its first await: the request is sent               *)
handleExtract ==
  /\ client.open
  /\ client.step = "idle"
  /\ ~client.isExtracting
  /\ client' = [client EXCEPT
       !.step = "sent",
       !.isExtracting = TRUE,
       !.body = [fields |-> client.fields, aliases |-> client.fieldAliases],
       !.closure = [deletedFields |-> client.deletedFields,
                    fieldAliases |-> client.fieldAliases,
                    caseData |-> client.caseData]]
  /\ UNCHANGED <<parseVars, selVars, convVars, extVars, callVars, requests>>

(* the server's answer arrives: fetch and response.json() are fulfilled   *)
ExtractAnswered ==
  /\ client.open
  /\ client.step = "sent"
  /\ \E ok \in BOOLEAN, found \in SUBSET ClientNames :
       client' = [client EXCEPT
         !.step = "answered",
         !.json = [ok |-> ok, keys |-> answeredKeys(client.body), found |-> found]]
  /\ UNCHANGED <<parseVars, selVars, convVars, extVars, callVars, requests>>

(* handleExtract after its awaits, with the state updates in their order  *)
handleExtractContinues ==
  /\ client.open
  /\ client.step = "answered"
  /\ LET json == client.json
         cl == client.closure
     IN client' = IF ~json.ok
          THEN [client EXCEPT !.step = "failed", !.isExtracting = FALSE]
          ELSE [client EXCEPT
            !.step = "applied",
            !.isExtracting = FALSE,
            !.caseData = dropDeleted(moveAliases(mergeFields(@, json, 1), cl.fieldAliases, 1),
                                     cl.deletedFields),
            !.fields = reconcileFields(AppendMissing(@, json.keys),
                                       cl.deletedFields, cl.fieldAliases),
            !.changedFields = changedOf(cl.caseData, json)]
  /\ UNCHANGED <<parseVars, selVars, convVars, extVars, callVars, requests>>

NextClient ==
  \/ \E index \in 1..3 : handleRemoveField(index)
  \/ \E index \in 1..3, name \in ClientNames : commitFieldRename(index, name)
  \/ handleExtract
  \/ ExtractAnswered
  \/ handleExtractContinues

ClientFieldLists == {<<<<"T", "D", "H">>, <<"m", "a", "n", "u", "f", "a", "c", "t", "u", "r", "e",
      "r">>>>, <<<<"T", "D", "H">>>>}

InitClient ==
  /\ \E fs \in ClientFieldLists, known \in SUBSET {<<"T", "D", "H">>} :
       client = [open |-> TRUE, fields |-> fs, deletedFields |-> <<>>,
                 fieldAliases |-> <<>>,
                 caseData |-> [k \in known |-> <<"7">>],
                 changedFields |-> {}, isExtracting |-> FALSE,
                 step |-> "idle", body |-> NoSentBody, closure |-> NoClosure,
                 json |-> NoJson, edits |-> 0]
  /\ requests = <<>>
  /\ ParseIdle
  /\ SelIdle
  /\ ConvIdle
  /\ ExtIdle
  /\ CallIdle

SpecClient == InitClient /\ [][NextClient]_vars

(***************************************************************************)
(* Claims about parsePageSpec and the page selection                       *)
(***************************************************************************)
AllSpaces(s) == \A i \in 1..Len(s) : IsSpace(s[i])

\* the token t names page n: t is the decimal number n, or t is a range
\* "a-b" (white space allowed around the '-') with min(a,b) <= n <= max(a,b)
TokenNames(t, n) ==
  \/ AllDigits(t) /\ ParseInt(t) = n
  \/ \E i \in 1..Len(t), h \in 1..Len(t), j \in 1..Len(t) :
       /\ i < h /\ h < j
       /\ AllDigits(Slice(t, 1, i))
       /\ AllSpaces(Slice(t, i + 1, h - 1))
       /\ t[h] = "-"
       /\ AllSpaces(Slice(t, h + 1, j - 1))
       /\ AllDigits(Slice(t, j, Len(t)))
       /\ LET a == ParseInt(Slice(t, 1, i))
              b == ParseInt(Slice(t, j, Len(t)))
          IN  Min2(a, b) <= n /\ n <= Max2(a, b)

\* the comma-separated tokens of a spec, trimmed
TokensOf(spec) == {Trim(t) : t \in SeqToSet(Split(spec, ","))}

NamedPages(spec, total) ==
  {n \in 1..total : \E t \in TokensOf(spec) : TokenNames(t, n)}

\* a spec that is one range token "a-b", and the same range written "b-a"
IsRangeToken(spec) == RangeMatch(spec) # <<>>
Reversed(spec) == LET m == RangeMatch(spec) IN m[2] \o <<"-">> \o m[1]

\* C6: parsePageSpec returns, strictly increasing, exactly the pages in
\* [1,total] that some comma-separated token names as a number or as a range
\* a-b (in either order); every other token and every out-of-range number is
\* ignored; a reversed range gives the result of the range written forwards;
\* the three documented examples give [1,3,5,6,7], [] and [5,6,7].
C6_ParsePageSpec ==
  parseOut.done =>
    /\ StrictlyIncreasing(parseOut.pages)
    /\ SeqToSet(parseOut.pages) = NamedPages(parseIn.spec, parseIn.total)
    /\ IsRangeToken(parseIn.spec) =>
         parseOut.pages = parsePageSpec(Reversed(parseIn.spec), parseIn.total)
    /\ (parseIn.spec = Example_1_3_5to7 /\ parseIn.total = 10)
         => parseOut.pages = <<1, 3, 5, 6, 7>>
    /\ (parseIn.spec = Example_0_11 /\ parseIn.total = 10)
         => parseOut.pages = <<>>
    /\ (parseIn.spec = Example_7to5 /\ parseIn.total = 10)
         => parseOut.pages = <<5, 6, 7>>

\* a reversed range after an ignored token has been parsed to its pages
C6_Witness ==
  /\ parseOut.done
  /\ parseIn.spec = <<"x", ",", "3", "-", "1">>
  /\ parseIn.total = 3
  /\ parseOut.pages = <<1, 2, 3>>

\* the bounds as the claim words them, from the configured values
ClaimStart == startPageCfgOf(NumberOf(selIn.start))
ClaimLastPage ==
  LET maxPagesCfg == maxPagesCfgOf(NumberOf(selIn.maxPages))
      endCfg      == endPageCfgRawOf(NumberOf(selIn.end))
      cands == {selIn.totalPages}
                 \cup (IF maxPagesCfg.finite THEN {ClaimStart + maxPagesCfg.v - 1} ELSE {})
                 \cup {IF endCfg.defined THEN endCfg.v ELSE selIn.totalPages}
  IN  CHOOSE m \in cands : \A c \in cands : m <= c
ClaimFirstPage == Min2(Max2(1, ClaimStart), ClaimLastPage)
ClaimSelection ==
  LET inc == SeqToSet(parsePageSpec(selIn.pagesSpec, selIn.totalPages))
      exc == SeqToSet(parsePageSpec(selIn.excludeSpec, selIn.totalPages))
      rng == {p \in 1..selIn.totalPages : ClaimFirstPage <= p /\ p <= ClaimLastPage}
  IN  IF inc # {} THEN (inc \cap rng) \ exc ELSE rng \ exc

Indices == DOMAIN unit

\* the units started whose promise has not settled
InFlight == {i \in Indices : unit[i] = "running"}

SomeCallThrew == \E i \in Indices : reply[i].state = "threw"

PdfSucceeded == pc = "done" /\ response.status = 200 /\ promise = "resolved"

\* C1: while mapLimit runs with an integer limit L >= 1, the number of units
\* started and not yet settled never exceeds L.
C1_InFlightAtMostLimit ==
  (promise # "none" /\ cfg.concurrencyCfg >= 1) =>
    Cardinality(InFlight) <= cfg.concurrencyCfg

\* the limit is reached while a unit has completed and another still waits
C1_Witness ==
  /\ promise = "pending"
  /\ cfg.concurrencyCfg = 2
  /\ Cardinality(InFlight) = 2
  /\ \E i \in Indices : unit[i] = "done"

\* C2: when mapLimit resolves, the result array has one element per item and
\* the element at index i is the value the unit run for item i produced,
\* whatever the order of completion.
C2_ResultsPositional ==
  promise = "resolved" =>
    /\ DOMAIN results = 0..(Len(pageImages) - 1)
    /\ \A i \in DOMAIN results :
         /\ reply[i].state = "answered"
         /\ results[i] = [defined |-> TRUE, page |-> pageImages[i + 1],
                          content |-> Trim(reply[i].text)]

\* three units resolved although the middle one came back last
C2_Witness ==
  /\ promise = "resolved"
  /\ Len(pageImages) = 3
  /\ settleOrder = <<2, 0, 1>>
  /\ results[0].content # results[1].content

\* C3: once the vision call of a selected page has failed, mapLimit never
\* resolves, and the request answers, if at all, with HTTP 500 {error,
\* details} and no markdown; when the failure has been handed to reject the
\* pending request is bound for the catch block.
C3_FailFast ==
  SomeCallThrew =>
    /\ promise # "resolved"
    /\ response.status # 0 =>
         /\ response.status = 500
         /\ response.keys = {"error", "details"}
         /\ response.markdown = <<>>
    /\ (\E i \in Indices : unit[i] = "failed") => promise = "rejected"

\* a 500 answered although another page had produced a table
C3_Witness ==
  /\ pc = "done"
  /\ response.status = 500
  /\ SomeCallThrew
  /\ \E i \in Indices : results[i].defined /\ results[i].content = TableText

\* C7: an empty page selection fails the request as a whole: HTTP 500 with
\* {error, details} and no markdown, before any page is rendered and before
\* any vision call is made.
C7_EmptySelectionFails ==
  (totalPages >= 1 /\ selectedPages = <<>>) =>
    /\ pc = "done"
    /\ response.status = 500
    /\ response.keys = {"error", "details"}
    /\ response.markdown = <<>>
    /\ pageImages = <<>>
    /\ visionCalls = <<>>
    /\ promise = "none"

\* every page of a three-page document was excluded
C7_Witness ==
  /\ totalPages = 3
  /\ selectedPages = <<>>
  /\ cfg.excludeSpec = <<"1", "-", "3">>
  /\ response.status = 500

\* the answer of the vision model for unit i, trimmed
TrimmedReply(i) == Trim(reply[i].text)

\* the output of unit i is part of the aggregated Markdown
Survives(i) ==
  Includes(response.markdown,
           PagePart([page |-> pageImages[i + 1], content |-> TrimmedReply(i)]))

\* C8 as stated: a page is dropped exactly when its trimmed answer is empty
\* or contains, ignoring case, "No tables detected in the image."
C8_DroppedIffFullSentinel ==
  PdfSucceeded =>
    \A i \in Indices :
      ~Survives(i) <=>
        (TrimmedReply(i) = <<>> \/ IncludesIgnoreCase(TrimmedReply(i), SentinelImage))

\* C8 amended: a page is dropped exactly when its trimmed answer is empty or
\* contains, ignoring case, "No tables detected"; every other page survives.
C8_DroppedIffNoTablesText ==
  PdfSucceeded =>
    \A i \in Indices :
      ~Survives(i) <=>
        (TrimmedReply(i) = <<>> \/ IncludesIgnoreCase(TrimmedReply(i), NoTablesPattern))

\* one page answered the sentinel in another case, one a table
C8_Witness ==
  /\ PdfSucceeded
  /\ \E i, j \in Indices :
       /\ reply[i].text = PaddedSentinel /\ ~Survives(i)
       /\ reply[j].text = TableText /\ Survives(j)

\* the pages whose output survives, by page number
SurvivingPages ==
  {pageImages[i + 1] : i \in {k \in Indices :
      TrimmedReply(k) # <<>> /\ ~IncludesIgnoreCase(TrimmedReply(k), NoTablesPattern)}}

IndexOfPage(p) == CHOOSE i \in Indices : pageImages[i + 1] = p

ExpectedMarkdown ==
  LET order == SortedSeq(SurvivingPages)
      parts == [k \in 1..Len(order) |->
                  PageHeading \o Decimal(order[k]) \o BlankLine
                    \o TrimmedReply(IndexOfPage(order[k]))]
  IN  Join(parts, BlankLine)

\* C9: the aggregated Markdown of a successful PDF conversion is the
\* surviving page outputs, each under a heading with its own page number, in
\* ascending page order with a blank line between, whatever the completion
\* order; it is "No tables detected in the document." iff nothing survives.
C9_AggregateInPageOrder ==
  PdfSucceeded =>
    /\ SurvivingPages # {} => response.markdown = ExpectedMarkdown
    /\ response.markdown = NoTablesDocument <=> SurvivingPages = {}

\* pages 1 and 3 survive, page 3 having answered first
C9_Witness ==
  /\ PdfSucceeded
  /\ selectedPages = <<1, 3>>
  /\ settleOrder = <<1, 0>>
  /\ SurvivingPages = {1, 3}

(***************************************************************************)
(* Claims about the Extract route                                          *)
(***************************************************************************)
\* the request carries a string markdown that is not blank
ExtractNonBlank == extractBody.valid /\ ~markdownMissing(extractBody)

\* the requested field sequence as the interface states it: the names sent,
\* or the default schema when fields is absent, not an array, or empty
ClaimRequested ==
  IF extractBody.fields.array /\ Len(extractBody.fields.items) > 0
  THEN [i \in 1..Len(extractBody.fields.items) |-> extractBody.fields.items[i].s]
  ELSE DEFAULT_FIELDS

\* the name a raw key is reported under: aliases[k] when the caller's alias
\* map has a non-empty entry for k, else k
ClaimTarget(k) ==
  LET aliases == aliasesOf(extractBody)
  IN  IF HasOwn(aliases, k) /\ ~Falsy(Own(aliases, k)) THEN Own(aliases, k).s ELSE k

\* the names the raw mapping has a value for, after the aliases
ClaimTargets == {ClaimTarget(EntriesOf(parsed)[i].k) : i \in 1..Len(EntriesOf(parsed))}

FieldsAreStrings ==
  \A i \in 1..Len(extractResponse.fields) : extractResponse.fields[i].v.t = "string"

FieldKeysAreRequested ==
  SeqToSet(Keys(extractResponse.fields)) = SeqToSet(ClaimRequested)

\* C4: for every Extract request with non-blank markdown, whatever the model
\* does, the response's fields has exactly the requested field names as
\* keys, every value is a string, "" for a name the (aliased) raw mapping
\* holds nothing for, and order is the requested field sequence, the
\* 13-field default schema when fields is absent, not an array, or empty.
C4_FieldsExactlyRequested ==
  (extractPc = "done" /\ ExtractNonBlank) =>
    /\ extractResponse.status = 200
    /\ FieldKeysAreRequested
    /\ FieldsAreStrings
    /\ \A i \in 1..Len(extractResponse.fields) :
         extractResponse.fields[i].k \notin ClaimTargets
           => extractResponse.fields[i].v = JsString(<<>>)
    /\ extractResponse.order = ClaimRequested

\* C10: for every Extract request with non-blank markdown, a failure of the
\* model call is never surfaced: the answer is a success response holding
\* the full field map, every value a string, all of them "" when the
\* heuristic finds nothing, and never an error status.
C10_ModelFailureNotSurfaced ==
  (extractPc = "done" /\ ExtractNonBlank /\ modelOutcome = "failed") =>
    /\ extractResponse.status = 200
    /\ FieldKeysAreRequested
    /\ FieldsAreStrings
    /\ (\A i \in 1..Len(ClaimRequested) :
          heuristicValue(LinesOf(extractBody.markdown.s), ClaimRequested[i]) = <<>>)
         => \A i \in 1..Len(extractResponse.fields) :
              extractResponse.fields[i].v = JsString(<<>>)

\* C11: in Extract the heuristic extractor runs if and only if the model
\* call threw or the value parsed from the model's reply is falsy or has no
\* own enumerable keys (an empty object, but also null or a number); when
\* it does not run, the raw mapping is the model's value alone.
C11_HeuristicIffNothingUsable ==
  (extractPc = "done" /\ modelOutcome # "none") =>
    /\ heuristicRan <=> \/ modelOutcome = "failed"
                        \/ Nullish(modelParsed)
                        \/ Len(EntriesOf(modelParsed)) = 0
    /\ ~heuristicRan => modelOutcome = "answered" /\ parsed = modelParsed

\* C11 as stated: the heuristic runs if and only if the model call threw or
\* the parsed reply is an empty object.
C11_HeuristicIffEmptyObject ==
  (extractPc = "done" /\ modelOutcome # "none") =>
    (heuristicRan <=> modelOutcome = "failed" \/ modelParsed = JsObject(EmptyObject))

\* the model answered null and the heuristic ran
C11_Witness ==
  /\ extractPc = "done" /\ ExtractNonBlank
  /\ modelOutcome = "answered"
  /\ modelParsed = JsNull
  /\ heuristicRan
  /\ extractResponse.status = 200

\* the terms of the rule of the field heuristicExtract was called for
CallTerms == RuleIn(SYNONYMS, callIn.key)

ContainsOneOf(value, terms) ==
  \E j \in 1..Len(terms) : IncludesIgnoreCase(value, terms[j])

\* C12: in the heuristic extractor a candidate value found for a field is
\* replaced by "" exactly when the field's exclude list is non-empty, the
\* value contains (ignoring case) at least one exclude term and none of the
\* field's match terms; a value containing a match term is never discarded,
\* and a field with an empty exclude list keeps every candidate.
C12_ExcludeUnlessMatch ==
  (callIn.fn = "heuristicExtract" /\ callOut.done) =>
    /\ Keys(callOut.out) = <<callIn.key>>
    /\ LET value == callOut.out[1].v.s
           discarded == callOut.candidate # <<>> /\ value = <<>>
       IN  /\ ~discarded => value = callOut.candidate
           /\ discarded <=> /\ callOut.candidate # <<>>
                            /\ Len(CallTerms.exclude) > 0
                            /\ ContainsOneOf(callOut.candidate, CallTerms.exclude)
                            /\ ~ContainsOneOf(callOut.candidate, CallTerms.match)

\* a candidate holding an exclude term and a match term was kept
C12_Witness ==
  /\ callIn.fn = "heuristicExtract" /\ callOut.done
  /\ callOut.candidate # <<>>
  /\ ContainsOneOf(callOut.candidate, CallTerms.exclude)
  /\ ContainsOneOf(callOut.candidate, CallTerms.match)
  /\ callOut.out[1].v.s = callOut.candidate


\* the usage the vision calls of units 0..n-1 reported, added up
RECURSIVE ReportedUsage(_)
ReportedUsage(n) ==
  IF n = 0 THEN ZeroUsage
  ELSE LET rest == ReportedUsage(n - 1)
           u == reply[n - 1].usage
       IN  [prompt_tokens |-> rest.prompt_tokens + u.prompt_tokens,
            completion_tokens |-> rest.completion_tokens + u.completion_tokens,
            total_tokens |-> rest.total_tokens + u.total_tokens]

\* C13: on a successful PDF conversion the reported usage equals, component
\* by component, the sum of the usage the vision call of every selected page
\* reported, whatever the concurrency limit and the order of completion.
C13_UsageIsSumOverPages ==
  PdfSucceeded =>
    /\ Indices = 0..(Len(selectedPages) - 1)
    /\ \A i \in Indices : reply[i].state = "answered"
    /\ response.usage = ReportedUsage(Len(selectedPages))

\* three pages answered out of order, one of them without usage, under a
\* limit of 2
C13_Witness ==
  /\ PdfSucceeded
  /\ Len(selectedPages) = 3
  /\ cfg.concurrencyCfg = 2
  /\ settleOrder[1] = 1
  /\ \E i \in Indices : reply[i].text = PaddedSentinel
  /\ response.usage = [prompt_tokens |-> 3, completion_tokens |-> 1, total_tokens |-> 4]

\* C14: the concurrency limit handed to the dispatcher is always an integer
\* in [1,5], for every value of the concurrency query parameter and every
\* value of the configured default it falls back to.
C14_LimitWithinOneToFive ==
  (callIn.fn = "concurrencyCfg" /\ callOut.done) =>
    callOut.limit \in MinConcurrency..MaxConcurrency

\* the maxPages parameter of the selection is a positive number
MaxPagesSupplied == selIn.maxPages.kind = "num" /\ selIn.maxPages.n > 0

\* min(maxPages, 50)
ClaimCap == IF selIn.maxPages.n <= 50 THEN selIn.maxPages.n ELSE 50

CalledPages == SeqToSet(visionCalls)

\* the request is a PDF conversion past the page selection
PdfRequest == Len(selectedPages) > 0

\* C16: within one PDF Convert request the vision model is called at most
\* once for each selected page and never for a page outside the selection;
\* when the request succeeds it has been called exactly once for every
\* selected page.
C16_OneCallPerSelectedPage ==
  PdfRequest =>
    /\ \A j, k \in 1..Len(visionCalls) : visionCalls[j] = visionCalls[k] => j = k
    /\ CalledPages \subseteq SeqToSet(selectedPages)
    /\ PdfSucceeded => /\ CalledPages = SeqToSet(selectedPages)
                       /\ Len(visionCalls) = Len(selectedPages)

\* three pages, answered out of order, each called for once
C16_Witness ==
  /\ PdfRequest /\ PdfSucceeded
  /\ Len(selectedPages) = 3
  /\ visionCalls = selectedPages
  /\ settleOrder[1] = 1

\* the markdown of the Extract request is missing, not a string, or blank
MarkdownUnusable ==
  \/ extractBody.markdown.t # "string"
  \/ \A i \in 1..Len(extractBody.markdown.s) : IsSpace(extractBody.markdown.s[i])

\* C17: an Extract request whose markdown is missing, not a string, or blank
\* after trimming is answered with HTTP 400 and an error body, and in that
\* case neither the model is called nor the heuristic extractor run.
C17_BlankMarkdownIs400 ==
  (extractBody.valid /\ MarkdownUnusable) =>
    /\ modelOutcome = "none"
    /\ ~heuristicRan
    /\ extractPc \in {"received", "done"}
    /\ extractPc = "done" => /\ extractResponse.status = 400
                             /\ extractResponse.error # ""
                             /\ extractResponse.fields = EmptyObject


\* C18: every invalid input - a missing or malformed (unparsable) request
\* body, an unsupported content type, a missing file field, an unsupported
\* file type - is answered with a 4xx status (400 or 415), never a 5xx, and
\* is rejected before any model call is made. Stated here for the Extract
\* route, whose invalid inputs are an unparsable body and an unusable
\* markdown.
C18_InvalidInputIs4xx ==
  (extractPc = "done" /\ (~extractBody.valid \/ MarkdownUnusable)) =>
    /\ extractResponse.status \in {400, 415}
    /\ modelOutcome = "none"

\* the text a raw value is reported as: '' for null and undefined
ClaimText(v) ==
  IF Nullish(v) THEN <<>>
  ELSE IF v.t \in {"string", "number"} THEN v.s
  ELSE ObjectObjectText

\* the raw keys o that are keys of aliases, whose target is a requested
\* field no other raw key maps to
RenamedKeys ==
  {i \in 1..Len(EntriesOf(parsed)) :
     LET o == EntriesOf(parsed)[i].k
     IN  /\ HasOwn(aliasesOf(extractBody), o)
         /\ ClaimTarget(o) # o
         /\ \E j \in 1..Len(ClaimRequested) : ClaimRequested[j] = ClaimTarget(o)
         /\ \A k \in 1..Len(EntriesOf(parsed)) :
              k # i => ClaimTarget(EntriesOf(parsed)[k].k) # ClaimTarget(o)}

\* C19: in Extract, after either path has produced the raw mapping, every
\* raw key that is a key of aliases is renamed to its target before
\* normalization: if the raw mapping holds a value under o, aliases[o] = n,
\* n is requested and no other raw key maps to n, the result reports that
\* value under n, and o does not appear in the result unless it is
\* requested.
C19_AliasedKeysRenamed ==
  (extractPc = "done" /\ modelOutcome # "none") =>
    \A i \in RenamedKeys :
      LET o == EntriesOf(parsed)[i].k
          n == ClaimTarget(o)
      IN  /\ extractResponse.status = 200
          /\ HasOwn(extractResponse.fields, n)
          /\ Own(extractResponse.fields, n) = JsString(ClaimText(EntriesOf(parsed)[i].v))
          /\ HasOwn(extractResponse.fields, o)
               => \E j \in 1..Len(ClaimRequested) : ClaimRequested[j] = o


\* C20: field normalization is idempotent: for every raw mapping m and
\* requested field list F, normalizeFields(normalizeFields(m, F), F) equals
\* normalizeFields(m, F), whose keys are exactly F and whose values are all
\* strings.
C20_NormalizeIdempotent ==
  (callIn.fn = "normalizeFields" /\ callOut.done) =>
    /\ ~callOut.once.throws
    /\ ~callOut.twice.throws
    /\ callOut.twice.o = callOut.once.o
    /\ SeqToSet(Keys(callOut.once.o)) = SeqToSet(callIn.requested)
    /\ \A i \in 1..Len(callOut.once.o) : callOut.once.o[i].v.t = "string"

(***************************************************************************)
(* Claims about requests side by side and about mapLimit                   *)
(***************************************************************************)
\* the usage the answered vision calls of request r reported, units 0..n-1
RECURSIVE OwnUsage(_, _)
OwnUsage(r, n) ==
  IF n = 0 THEN ZeroUsage
  ELSE AddUsage(OwnUsage(r, n - 1), requests[r].reply[n - 1].usage)

\* the aggregate of the answers request r itself received
OwnMarkdown(r) ==
  CombinedMarkdown([k \in 1..Len(requests[r].pages) |->
                      [defined |-> TRUE, page |-> requests[r].pages[k],
                       content |-> Trim(requests[r].reply[k - 1].text)]])

\* C21: two Convert requests processed with interleaved page calls do not
\* influence each other: the markdown and the usage returned for a request
\* depend only on its own pages and model responses, and no usage increment
\* of one request is ever added to the other request's counter.
C21_RequestsDoNotInterfere ==
  \A r \in DOMAIN requests :
    /\ requests[r].pc # "start"
         => requests[r].usageInfo = OwnUsage(r, Len(requests[r].pages))
    /\ (requests[r].pc = "done" /\ requests[r].response.status = 200)
         => /\ requests[r].response.usage = OwnUsage(r, Len(requests[r].pages))
            /\ requests[r].response.markdown = OwnMarkdown(r)

\* request 1 has answered with its own total while request 2, which has
\* already received usage of its own, is still waiting for a page
C21_Witness ==
  /\ DOMAIN requests = 1..2
  /\ requests[1].pc = "done" /\ requests[1].response.status = 200
  /\ requests[1].response.usage.total_tokens = 3
  /\ requests[2].pc = "await"
  /\ requests[2].usageInfo.total_tokens = 2
  /\ \E i \in DOMAIN requests[2].unit : requests[2].unit[i] = "running"

\* C22: once any unit of work has failed in mapLimit (its rejection has
\* reached reject), no item that had not yet been started is started
\* afterwards, for every limit, every N and every completion order of the
\* units already in flight.
C22_NoDispatchAfterFailure ==
  [][(\E i \in DOMAIN unit : unit[i] = "failed")
       => \A k \in DOMAIN unit : unit[k] = "unstarted" => unit'[k] = "unstarted"]_vars

\* the lines heuristicExtract was called on and the terms it looks for
CallLines == LinesOf(callIn.markdown)

CallKeys == keysOf(CallTerms, callIn.key)

\* the lines that match 'key separator value' or are a pipe-table row whose
\* first cell contains one of the terms
MatchingLines ==
  {i \in 1..Len(CallLines) :
     MatchLine(CallLines[i], CallKeys).found \/ PipeRow(CallLines[i], CallKeys)}

\* the value the line gives: the captured group, or the row's second cell
LineValue(line) ==
  IF MatchLine(line, CallKeys).found THEN Trim(MatchLine(line, CallKeys).text)
  ELSE CellsOf(line)[2]

\* C23: in the heuristic extractor the value chosen for a field comes from
\* the first line, top to bottom, that matches either pattern (i) 'key
\* separator value' or pattern (ii) a pipe-table row whose first cell
\* contains one of the field's match terms; a later line never wins over an
\* earlier line that matches either pattern, and nothing is chosen when no
\* line matches.
C23_FirstMatchingLineWins ==
  (callIn.fn = "heuristicExtract" /\ callOut.done) =>
    callOut.candidate = IF MatchingLines = {} THEN <<>>
                        ELSE LineValue(CallLines[MinOf(MatchingLines)])

(***************************************************************************)
(* Claims about the client page                                            *)
(***************************************************************************)
Removed == SeqToSet(client.deletedFields)

(* C24: once an extraction response has been applied, a field the user has *)
(* removed (also one removed while the request was in flight) is neither   *)
(* in the field list nor a key of the selected case.                       *)
C24_RemovedFieldStaysRemoved ==
  (client.open /\ client.step = "applied") =>
    \A f \in Removed : f \notin SeqToSet(client.fields) /\ f \notin DOMAIN client.caseData

(***************************************************************************)
(* Claims about one mapLimit call                                          *)
(***************************************************************************)
Call1 == requests[1]

Settled(q) == q.promise \in {"resolved", "rejected"}

AllDone(q) == \A i \in DOMAIN q.unit : q.unit[i] = "done"

(* C25: with a limit of at least 1 and units that settle, the promise of   *)
(* mapLimit eventually settles; it is resolved exactly when every unit has *)
(* succeeded and its result is stored (at the call itself for no items),   *)
(* a failed unit leads to rejection, and a settled promise never changes.  *)
C25_MapLimitSettles ==
  /\ [](Call1.pc # "start" => (Call1.promise = "resolved" <=> AllDone(Call1)))
  /\ []((\E i \in DOMAIN Call1.unit : Call1.unit[i] = "failed") => Call1.promise = "rejected")
  /\ [][Settled(Call1) => Call1'.promise = Call1.promise]_vars
  /\ (Call1.pc = "start") ~> Settled(Call1)
  /\ (\E i \in DOMAIN Call1.unit : Call1.unit[i] = "rejected") ~> (Call1.promise = "rejected")

C25_Witness ==
  /\ Len(Call1.pages) = 3
  /\ Call1.limit = 2
  /\ Call1.promise = "resolved"
  /\ Call1.pc = "done"

(***************************************************************************)
(* Claims about the order and the number of units mapLimit keeps going     *)
(***************************************************************************)
Started == {i \in DOMAIN unit : unit[i] # "unstarted"}

(* C26: mapLimit starts its items in input order and each of them once:    *)
(* the started items are the first ones of the input, and the k-th call    *)
(* made is the call for the k-th item, whatever the order of completion.   *)
C26_StartedInInputOrder ==
  promise # "none" =>
    /\ Started = 0..(Len(visionCalls) - 1)
    /\ \A k \in 1..Len(visionCalls) : visionCalls[k] = pageImages[k]

C26_Witness ==
  /\ promise = "pending"
  /\ Len(pageImages) = 3
  /\ unit[0] = "running"
  /\ unit[1] = "done"
  /\ unit[2] = "running"

NotCompleted == {i \in DOMAIN unit : unit[i] # "done"}

NoUnitFailed == \A i \in DOMAIN unit : unit[i] \notin {"rejected", "failed"}

(* C27: while no unit has failed, between any two callbacks the number of  *)
(* units in flight is min(L, number of items not yet completed): no slot   *)
(* is idle while an item waits to be started.                              *)
C27_WorkConserving ==
  (promise # "none" /\ cfg.concurrencyCfg >= 1 /\ NoUnitFailed) =>
    /\ active = Min2(cfg.concurrencyCfg, Cardinality(NotCompleted))
    /\ active = Cardinality({i \in DOMAIN unit : unit[i] \in {"running", "fulfilled"}})

C27_Witness ==
  /\ promise = "pending"
  /\ NoUnitFailed
  /\ cfg.concurrencyCfg = 2
  /\ Len(pageImages) = 3
  /\ unit[0] = "done"
  /\ active = 2

(***************************************************************************)
(* Claims about the clamped page range                                     *)
(***************************************************************************)
StartGiven == NumberOf(selIn.start)

EndGiven == NumberOf(selIn.end)

(* C28: for every document of at least one page and all integer start,     *)
(* end and maxPages values, valid or not, 1 <= firstPage <= lastPage <=    *)
(* totalPages; a start beyond the end or the document gives the single     *)
(* page lastPage, and only the include and exclude specs can empty the     *)
(* selection.                                                              *)
C28_RangeNeverEmpty ==
  selOut.done =>
    /\ 1 <= selOut.firstPage
    /\ selOut.firstPage <= selOut.lastPage
    /\ selOut.lastPage <= selIn.totalPages
    /\ (~StartGiven.nan /\ StartGiven.v > selIn.totalPages)
         => selOut.firstPage = selOut.lastPage
    /\ (~StartGiven.nan /\ ~EndGiven.nan /\ EndGiven.v > 0 /\ StartGiven.v > EndGiven.v)
         => selOut.firstPage = selOut.lastPage
    /\ selOut.pages = <<>> => (selIn.pagesSpec # <<>> \/ selIn.excludeSpec # <<>>)

C28_Witness ==
  /\ selOut.done
  /\ selIn.totalPages = 3
  /\ selIn.start = QNum(3)
  /\ selIn.end = QNum(2)
  /\ selOut.firstPage = 2
  /\ selOut.lastPage = 2

NothingIncluded ==
  selIn.pagesSpec # <<>> /\ parsePageSpec(selIn.pagesSpec, selIn.totalPages) = <<>>

(* C29: a non-empty include spec that names no page of the document is    *)
(* treated like an absent one: the selection is the clamped range          *)
(* firstPage..lastPage without the excluded pages, in increasing order.    *)
C29_UnmatchedIncludeIsAbsent ==
  (selOut.done /\ NothingIncluded) =>
    /\ SeqToSet(selOut.pages) =
         (selOut.firstPage..selOut.lastPage)
           \ SeqToSet(parsePageSpec(selIn.excludeSpec, selIn.totalPages))
    /\ \A j, k \in 1..Len(selOut.pages) : j < k => selOut.pages[j] < selOut.pages[k]

C29_Witness ==
  /\ selOut.done
  /\ selIn.pagesSpec = <<"9">>
  /\ selIn.excludeSpec = <<"2">>
  /\ selIn.totalPages = 3
  /\ selOut.pages = <<1, 3>>

(***************************************************************************)
(* Claims about the alias application of Extract                           *)
(***************************************************************************)
\* the raw keys whose target is the field f, by their position in the raw
\* mapping
MappedOnto(f) ==
  {i \in 1..Len(EntriesOf(parsed)) : ClaimTarget(EntriesOf(parsed)[i].k) = f}

MaxOf(S) == CHOOSE x \in S : \A y \in S : y <= x

ClaimReported(f) ==
  IF MappedOnto(f) = {} THEN <<>>
  ELSE ClaimText(EntriesOf(parsed)[MaxOf(MappedOnto(f))].v)

(* C30: in a successful Extract response the value reported for a          *)
(* requested field f is the raw value of the last raw key whose target     *)
(* (aliases[k] if non-empty, else k) is f, and "" when there is no such    *)
(* key; so a requested field that is an alias key with another target is   *)
(* reported as "" unless another raw key maps onto it.                     *)
C30_LastMappedKeyWins ==
  (extractPc = "done" /\ modelOutcome # "none" /\ extractResponse.status = 200) =>
    \A j \in 1..Len(ClaimRequested) :
      /\ HasOwn(extractResponse.fields, ClaimRequested[j])
      /\ Own(extractResponse.fields, ClaimRequested[j])
           = JsString(ClaimReported(ClaimRequested[j]))

====
